---- MODULE Spec2Model ----
(***************************************************************************)
(* Pagination-aware document assembly of the wiki PDF exporter: the        *)
(* footnote plan builder, the marker page resolver and the footnote text   *)
(* layout, modelled from src/unnamed/part_003.                             *)
(*                                                                         *)
(* Text is a sequence of one-character strings; a segment is a record      *)
(* [text, hasHref, href] (hasHref = FALSE is JavaScript's href === null).  *)
(***************************************************************************)
EXTENDS Integers, Sequences, FiniteSets, TLC

VARIABLES
    \* buildFootnotePagePlan
    footnoteRefs,        \* the references handed to the builder, in document order
    markerPages,         \* refIndex -> page, as extractMarkerPagesFromPdf returned it
    pages,               \* page -> pageEntry, the builder's running state
    refUpdates,          \* the rewrites pushed so far
    unresolvedRefs,      \* the refIndex values pushed as unresolved
    destinationCounter,  \* the running counter of destination names
    planResult,          \* orderedPages, once the builder returned
    planPc,              \* "idle" | "forEach" | "done"
    \* extractMarkerPagesFromPdf
    pdfPages,            \* the text items of the pages of the rendered document
    scanPages,           \* index -> page, the map under construction
    scanIndex,           \* number of pages scanned so far
    scanPc,              \* "idle" | "scan" | "done"
    \* layoutFootnoteSegments
    laySegments,         \* the segments handed to the layout so far
    layMaxWidth,         \* maxWidthPt
    lines,               \* committed lines
    currentLine,         \* fragments of the line under construction
    currentWidth,        \* width of the line under construction
    layPc,               \* "idle" | "forEach" | "done"
    \* the page offset vote of savePdf
    hasFootnotes,        \* the document holds footnote references
    tocPageCount,        \* pages of the table of contents rendered alone
    tocItems,            \* the headings tallied so far, each with its two marker pages
    offsetCounts,        \* delta -> count, in insertion order
    computedOffset,      \* the offset of the table of contents
    tocShown,            \* the page texts of the table of contents as last rendered
    probedRefs,          \* the footnote references tallied so far, each with its two marker pages
    footnoteOffsetCounts,   \* delta -> count, in insertion order
    computedFootnoteOffset, \* the offset of the footnote plan
    votePc,              \* "idle" | "tocItems" | "footnoteRefs" | "done"
    \* the footer sizing of savePdf
    footnoteAreaMm,      \* the reserved footer height, in mm
    bottomMarginMm,      \* the bottom margin of pdfOptions, in mm
    pageMarginMm,        \* the bottom margin last given to setDynamicPageMargins, in mm
    estimated,           \* estimated.maxRequiredMm, in units of 0.25 mm
    contentRenders,      \* calls of renderContentPdfWithTableBreaks so far
    pagePdfCalls,        \* calls of page.pdf on the content document so far
    renderMarginMm,      \* the bottom margin the content document was last rendered with
    planComputes,        \* calls of computeFootnotePlan so far
    planRender,          \* the content render the active plan was resolved from
    tocRender,           \* the content render the heading pages were resolved from
    expansions,          \* "Footnote footer expanded" lines logged so far
    consoleLevels,       \* the levels of the console lines the sizing wrote so far
    sizePc,              \* "idle" | the line of savePdf to run next | "toc"
    \* resolveFootnoteLinkSpec
    linkHref,            \* the href handed to the function
    linkKnown,           \* existingDestinationNames
    linkResult,          \* what the call returned, or that it threw
    linkPc,              \* "idle" | "call" | "done"
    \* injectFootnotesOverlayIntoPdf, injectFootnotesIntoPdf
    injPath,             \* "none" | "overlay" | "direct": the function called
    finalFootnotePlans,  \* the page plans handed to the injection
    basePdfBytes,        \* the document at pdfPath as the final render wrote it
    basePdfDoc,          \* the loaded document the injection edits and saves
    overlayPageCount,    \* pages of the rendered overlay document
    overlayDestinationCoordinates, \* the anchors read from the overlay page
    injIndex,            \* page (overlay) or plan (direct) handled next
    injPc,               \* "idle" | "start" | "render" | "merge" | "direct" | "returned" | "done"
    \* export and savePdf: the assembly of the document
    asmDoc,              \* the page: headings, footnote references, definitions, table rows
    domMarkers,          \* marker nodes in the page at this moment
    renders,             \* the page.pdf calls issued: target and markers in the page
    contentRendersLeft,  \* calls of renderContentPdfWithTableBreaks still to come
    pdfAtPath,           \* what lies at pdfPath
    asmOutcome,          \* "running" | "ok" | "failed": how export ended
    asmPc,               \* "idle" | the step of the assembly to run next | "end"
    \* export-all: one page over successive sync runs
    syncPage,            \* the page as the server lists it (updatedAt)
    dryRun,              \* config.dryRun
    pdfFile,             \* the PDF at absolutePdfPath: exists, mtime
    metaFile,            \* the .meta.json beside it: readable, sourceUpdatedAt
    syncState,           \* what evaluateSyncState returned in this run
    childResult,         \* how the export child ended and the result runSingleExport resolved
    stats,               \* skipped, created, updated, failed
    syncRun,             \* number of the run
    syncPc               \* "idle" | "evaluate" | "spawn" | "handle" | "next" | "end"

planVars == <<footnoteRefs, markerPages, pages, refUpdates, unresolvedRefs,
              destinationCounter, planResult, planPc>>
scanVars == <<pdfPages, scanPages, scanIndex, scanPc>>
layVars == <<laySegments, layMaxWidth, lines, currentLine, currentWidth, layPc>>
voteVars == <<hasFootnotes, tocPageCount, tocItems, offsetCounts, computedOffset, tocShown,
              probedRefs, footnoteOffsetCounts, computedFootnoteOffset, votePc>>
sizeVars == <<footnoteAreaMm, bottomMarginMm, pageMarginMm, estimated, contentRenders,
              pagePdfCalls, renderMarginMm, planComputes, planRender, tocRender,
              expansions, consoleLevels, sizePc>>
linkVars == <<linkHref, linkKnown, linkResult, linkPc>>
earlyVars == <<planVars, scanVars, layVars, voteVars, sizeVars>>
injVars == <<injPath, finalFootnotePlans, basePdfBytes, basePdfDoc, overlayPageCount,
             overlayDestinationCoordinates, injIndex, injPc>>
asmVars == <<asmDoc, domMarkers, renders, contentRendersLeft, pdfAtPath, asmOutcome, asmPc>>
syncVars == <<syncPage, dryRun, pdfFile, metaFile, syncState, childResult, stats, syncRun, syncPc>>
lateVars == <<linkVars, injVars, asmVars, syncVars>>
vars == <<earlyVars, lateVars>>

----------------------------------------------------------------------------
(* Bounds of the model *)

MaxRefs == 3
MaxPdfPages == 2
MaxTextLen == 2
MaxAnchors == 4

----------------------------------------------------------------------------
(* Text helpers: JavaScript string primitives the code relies on *)

NBSP == "nbsp"

IsWhitespace(c) == c \in {" ", "\n", "\r", "\t", NBSP}

MinOf(S) == CHOOSE x \in S : \A y \in S : x <= y

MaxOf(S) == CHOOSE x \in S : \A y \in S : x >= y

TrimLeft(s) ==
    LET keep == {i \in 1..Len(s) : ~IsWhitespace(s[i])}
    IN  IF keep = {} THEN <<>> ELSE SubSeq(s, MinOf(keep), Len(s))

TrimRight(s) ==
    LET keep == {i \in 1..Len(s) : ~IsWhitespace(s[i])}
    IN  IF keep = {} THEN <<>> ELSE SubSeq(s, 1, MaxOf(keep))

Trim(s) == TrimRight(TrimLeft(s))

\* text.replace(/\s+/g, ' ')
RECURSIVE CollapseWhitespace(_)
CollapseWhitespace(s) ==
    IF s = <<>> THEN <<>>
    ELSE IF IsWhitespace(Head(s))
         THEN IF Len(s) > 1 /\ IsWhitespace(s[2])
              THEN CollapseWhitespace(Tail(s))
              ELSE <<" ">> \o CollapseWhitespace(Tail(s))
         ELSE <<Head(s)>> \o CollapseWhitespace(Tail(s))

\* text.replace(/\s+/g, '')
StripWhitespace(s) == SelectSeq(s, LAMBDA c : ~IsWhitespace(c))

Digits == <<"0", "1", "2", "3", "4", "5", "6", "7", "8", "9">>

DigitChars == {Digits[i] : i \in 1..10}

IsDigit(c) == c \in DigitChars

DigitValue(c) == (CHOOSE i \in 1..10 : Digits[i] = c) - 1

\* String(n) of a non-negative integer
RECURSIVE ToStr(_)
ToStr(n) == IF n < 10 THEN <<Digits[n + 1]>> ELSE ToStr(n \div 10) \o <<Digits[(n % 10) + 1]>>

\* Number(digits) of a non-empty run of decimal digits
RECURSIVE ToNum(_)
ToNum(s) == IF s = <<>> THEN 0 ELSE 10 * ToNum(SubSeq(s, 1, Len(s) - 1)) + DigitValue(s[Len(s)])

LowerSeq == <<"a", "b", "c", "d", "e", "f", "g", "h", "i", "j", "k", "l", "m",
              "n", "o", "p", "q", "r", "s", "t", "u", "v", "w", "x", "y", "z">>

UpperSeq == <<"A", "B", "C", "D", "E", "F", "G", "H", "I", "J", "K", "L", "M",
              "N", "O", "P", "Q", "R", "S", "T", "U", "V", "W", "X", "Y", "Z">>

LowerChars == {LowerSeq[i] : i \in 1..26}

UpperChars == {UpperSeq[i] : i \in 1..26}

LowerOf == [c \in UpperChars |-> LowerSeq[CHOOSE i \in 1..26 : UpperSeq[i] = c]]

ToLowerChar(c) == IF c \in UpperChars THEN LowerOf[c] ELSE c

ToLowerCase(s) == [i \in 1..Len(s) |-> ToLowerChar(s[i])]

RECURSIVE JoinWith(_, _)
JoinWith(parts, sep) ==
    IF parts = <<>> THEN <<>>
    ELSE IF Len(parts) = 1 THEN parts[1]
    ELSE parts[1] \o sep \o JoinWith(Tail(parts), sep)

Includes(s, c) == \E i \in 1..Len(s) : s[i] = c

MapSet(f, k, v) == [x \in (DOMAIN f) \cup {k} |-> IF x = k THEN v ELSE f[x]]

EmptyMap == [x \in {} |-> 0]

----------------------------------------------------------------------------
(* sanitizeFootnoteToken *)

TokenMaxLen == 48

SafeTokenChars == LowerChars \cup DigitChars \cup {"_", "-"}

IsSafeTokenChar(c) == c \in SafeTokenChars

\* .replace(/[^a-z0-9_-]+/g, '-')
RECURSIVE ReplaceUnsafeRuns(_)
ReplaceUnsafeRuns(s) ==
    IF s = <<>> THEN <<>>
    ELSE IF IsSafeTokenChar(Head(s))
         THEN <<Head(s)>> \o ReplaceUnsafeRuns(Tail(s))
         ELSE IF Len(s) > 1 /\ ~IsSafeTokenChar(s[2])
              THEN ReplaceUnsafeRuns(Tail(s))
              ELSE <<"-">> \o ReplaceUnsafeRuns(Tail(s))

\* .replace(/^-+|-+$/g, '')
StripHyphens(s) ==
    LET keep == {i \in 1..Len(s) : s[i] # "-"}
    IN  IF keep = {} THEN <<>> ELSE SubSeq(s, MinOf(keep), MaxOf(keep))

\* the token is not cut
SliceToken_NoCut(s) == s

\* .slice(0, 48)
SliceToken(s) == SubSeq(s, 1, IF Len(s) < TokenMaxLen THEN Len(s) ELSE TokenMaxLen)

sanitizeFootnoteToken(value, fallback) ==
    LET source == ToLowerCase(Trim(value))
        safe == SliceToken(StripHyphens(ReplaceUnsafeRuns(source)))
    IN  IF safe = <<>> THEN fallback ELSE safe

----------------------------------------------------------------------------
(* cloneFootnoteSegments, buildFootnoteSegmentsKey *)

Seg(text, hasHref, href) == [text |-> text, hasHref |-> hasHref, href |-> href]

SameHref(a, b) == a.hasHref = b.hasHref /\ a.href = b.href

\* the forEach that merges neighbours with the same href and drops empty texts
RECURSIVE MergeSegments(_, _)
MergeSegments(prepared, normalized) ==
    IF prepared = <<>> THEN normalized
    ELSE LET segment == Head(prepared)
             n == Len(normalized)
         IN  IF segment.text = <<>> THEN MergeSegments(Tail(prepared), normalized)
             ELSE IF n > 0 /\ SameHref(normalized[n], segment)
                  THEN MergeSegments(Tail(prepared),
                         [normalized EXCEPT ![n].text = @ \o segment.text])
                  ELSE MergeSegments(Tail(prepared), Append(normalized, segment))

cloneFootnoteSegments(segments) ==
    LET prepared == SelectSeq(segments, LAMBDA s : s.text # <<>>)
    IN  IF prepared = <<>> THEN <<>>
        ELSE LET p1 == [prepared EXCEPT ![1].text = TrimLeft(@)]
                 p2 == [p1 EXCEPT ![Len(p1)].text = TrimRight(@)]
             IN  MergeSegments(p2, <<>>)

EmptyKey == <<"__EMPTY__">>

SegmentKey(segment) ==
    (IF segment.hasHref THEN Trim(segment.href) ELSE <<>>)
        \o <<":", ":">> \o Trim(CollapseWhitespace(segment.text))

buildFootnoteSegmentsKey(segments) ==
    LET normalized == cloneFootnoteSegments(segments)
    IN  IF normalized = <<>> THEN EmptyKey
        ELSE JoinWith([i \in 1..Len(normalized) |-> SegmentKey(normalized[i])], <<"|">>)

----------------------------------------------------------------------------
(* formatFootnoteNumberLabel, getFootnoteDisplayLabel *)

\* the numbers are joined without the blank
formatFootnoteNumberLabel_NoBlank(numbers) ==
    LET kept == SelectSeq(numbers, LAMBDA v : v > 0)
    IN  JoinWith([i \in 1..Len(kept) |-> ToStr(kept[i])], <<",">>)

formatFootnoteNumberLabel(numbers) ==
    LET kept == SelectSeq(numbers, LAMBDA v : v > 0)
    IN  JoinWith([i \in 1..Len(kept) |-> ToStr(kept[i])], <<",", " ">>)

\* the period is appended to grouped labels too
IsGroupedLabel_Never(explicitNumbers, rawLabel) == FALSE

IsGroupedLabel(explicitNumbers, rawLabel) ==
    Len(explicitNumbers) > 1 \/ Includes(rawLabel, ",")

getFootnoteDisplayLabel(item) ==
    LET rawLabel == Trim(IF item.numberLabel # <<>> THEN item.numberLabel
                         ELSE IF item.number # 0 THEN ToStr(item.number) ELSE <<>>)
        explicitNumbers == SelectSeq(item.numbers, LAMBDA v : v > 0)
    IN  IF rawLabel = <<>> THEN <<>>
        ELSE IF IsGroupedLabel(explicitNumbers, rawLabel) THEN rawLabel
        ELSE rawLabel \o <<".">>

----------------------------------------------------------------------------
(* Inputs of buildFootnotePagePlan: target ids and the definitions lookup *)

IdFn1 == <<"f", "n", "1">>

IdNote == <<"N", "o", "t", "e", " ", "2">>

IdLong == [i \in 1..50 |-> IF i = 48 THEN "#" ELSE "x"]

IdSym == <<"#", "!">>

IdGone == <<"g", "o", "n", "e">>

TargetIds == {IdFn1, IdNote, IdLong, IdSym, IdGone}

NoHref == <<>>

DefX == <<Seg(<<"s", " ", "t">>, FALSE, NoHref), Seg(<<"u">>, TRUE, <<"#", "h">>)>>

\* DefX with a doubled blank: another text, the same normalised key
DefX2 == <<Seg(<<"s", " ", " ", "t">>, FALSE, NoHref), Seg(<<"u">>, TRUE, <<"#", "h">>)>>

DefY == <<Seg(<<"y">>, FALSE, NoHref)>>

\* footnoteDefinitionsById: IdSym has an empty definition, IdGone has none
definitionsById ==
    [id \in {IdFn1, IdNote, IdLong, IdSym} |->
        IF id = IdFn1 THEN DefX
        ELSE IF id = IdNote THEN DefX2
        ELSE IF id = IdLong THEN DefY
        ELSE <<>>]

\* pages a reference marker can be found on; 0 stands for "not in the map"
PlanPages == {1, 2}

----------------------------------------------------------------------------
(* buildFootnotePagePlan *)

PlaceholderText == <<"(", "f", "o", "o", "t", "n", "o", "t", "e", " ", "t", "e", "x", "t", " ", "u", "n", "a", "v", "a", "i", "l", "a", "b", "l", "e", ")">>

PlaceholderSegments == <<Seg(PlaceholderText, FALSE, NoHref)>>

NoKey == <<>>

NoItem == 0

NoNumber == -1

NewPageEntry(page) ==
    [page |-> page, items |-> <<>>, byTargetId |-> EmptyMap,
     byDefinitionKey |-> EmptyMap, nextNumber |-> 1]

\* a reference without marker is put on page 1
ResolvePage_DefaultFirst(mp, refIndex) == IF refIndex \in DOMAIN mp THEN mp[refIndex] ELSE 1

\* markerPages.get(ref.refIndex), 0 when the map has no entry (falsy)
ResolvePage(mp, refIndex) == IF refIndex \in DOMAIN mp THEN mp[refIndex] ELSE 0

\* an empty definition counts as a definition
HasDefinition_AnyEntry(targetId) == targetId \in DOMAIN definitionsById

\* Array.isArray(definitionSegments) && definitionSegments.length > 0
HasDefinition(targetId) ==
    targetId \in DOMAIN definitionsById /\ Len(definitionsById[targetId]) > 0

RefSegments(targetId) ==
    IF HasDefinition(targetId) THEN cloneFootnoteSegments(definitionsById[targetId])
    ELSE PlaceholderSegments

DefinitionGroupKey(targetId) ==
    IF HasDefinition(targetId)
    THEN <<"definition:">> \o buildFootnoteSegmentsKey(RefSegments(targetId))
    ELSE NoKey

\* the contiguity test is dropped: any earlier item of the target is reused
IsContiguous_Always(entry, itemIdx, assignedNumber) == itemIdx # 0

IsContiguous(entry, itemIdx, assignedNumber) ==
    /\ itemIdx # NoItem
    /\ entry.items[itemIdx].lastAssignedNumber # NoNumber
    /\ entry.items[itemIdx].lastAssignedNumber = assignedNumber - 1

MapGet(f, k) == IF k \in DOMAIN f THEN f[k] ELSE NoItem

\* the item the reference joins, NoItem when a new one is to be allocated
SelectItem(entry, targetId, key, assignedNumber) ==
    LET byTarget == MapGet(entry.byTargetId, targetId)
        first == IF IsContiguous(entry, byTarget, assignedNumber) THEN byTarget ELSE NoItem
        byDefinition == IF key # NoKey THEN MapGet(entry.byDefinitionKey, key) ELSE NoItem
    IN  IF first # NoItem THEN first
        ELSE IF key # NoKey /\ IsContiguous(entry, byDefinition, assignedNumber)
             THEN byDefinition
             ELSE NoItem

FallbackToken(assignedNumber) == <<"f", "n", "-">> \o ToStr(assignedNumber)

DestPrefix == <<"e", "x", "p", "o", "r", "t", "-", "f", "o", "o", "t", "n", "o", "t", "e", "-">>

\* the name is built without the running counter
MakeDestName_NoCounter(counter, safeTarget) == DestPrefix \o safeTarget

MakeDestName(counter, safeTarget) == DestPrefix \o ToStr(counter) \o <<"-">> \o safeTarget

NewItem(targetId, destName, segments) ==
    [targetId |-> targetId, targetIds |-> <<targetId>>, number |-> 0,
     numberLabel |-> <<>>, numbers |-> <<>>, lastAssignedNumber |-> NoNumber,
     destName |-> destName, segments |-> segments]

AddTargetId(item, targetId) ==
    IF \E i \in 1..Len(item.targetIds) : item.targetIds[i] = targetId THEN item
    ELSE [item EXCEPT !.targetIds = Append(@, targetId)]

\* only the first number of an item is recorded
AssignNumber_KeepFirst(item, assignedNumber) ==
    LET numbers == IF item.numbers = <<>> THEN <<assignedNumber>> ELSE item.numbers
    IN  [item EXCEPT !.numbers = numbers,
                     !.number = numbers[1],
                     !.numberLabel = formatFootnoteNumberLabel(numbers),
                     !.lastAssignedNumber = assignedNumber]

AssignNumber(item, assignedNumber) ==
    LET numbers == Append(item.numbers, assignedNumber)
    IN  [item EXCEPT !.numbers = numbers,
                     !.number = numbers[1],
                     !.numberLabel = formatFootnoteNumberLabel(numbers),
                     !.lastAssignedNumber = assignedNumber]

\* the page's counter is not advanced
NextNumberAfter_Stuck(assignedNumber) == assignedNumber

NextNumberAfter(assignedNumber) == assignedNumber + 1

\* one iteration of footnoteRefs.forEach for a reference found on `page`
PlacedEntry(entry, ref, counter) ==
    LET assignedNumber == entry.nextNumber
        key == DefinitionGroupKey(ref.targetId)
        found == SelectItem(entry, ref.targetId, key, assignedNumber)
        safeTarget == sanitizeFootnoteToken(ref.targetId, FallbackToken(assignedNumber))
        items1 == IF found = NoItem
                  THEN Append(entry.items,
                              NewItem(ref.targetId, MakeDestName(counter + 1, safeTarget),
                                      RefSegments(ref.targetId)))
                  ELSE [entry.items EXCEPT ![found] = AddTargetId(@, ref.targetId)]
        idx == IF found = NoItem THEN Len(items1) ELSE found
        items2 == [items1 EXCEPT ![idx] = AssignNumber(@, assignedNumber)]
    IN  [entry EXCEPT !.nextNumber = NextNumberAfter(assignedNumber),
                      !.items = items2,
                      !.byTargetId = MapSet(@, ref.targetId, idx),
                      !.byDefinitionKey = IF key # NoKey THEN MapSet(@, key, idx) ELSE @]

PlacedItemIndex(entry, ref) ==
    SelectItem(entry, ref.targetId, DefinitionGroupKey(ref.targetId), entry.nextNumber)

PlanInit ==
    /\ footnoteRefs = <<>>
    /\ markerPages = EmptyMap
    /\ pages = EmptyMap
    /\ refUpdates = <<>>
    /\ unresolvedRefs = <<>>
    /\ destinationCounter = 0
    /\ planResult = <<>>
    /\ planPc = "forEach"

\* the forEach callback (lines 528-618) on the next reference of the input: its
\* refIndex is dense and zero-based, `found` = 0 when its marker is on no page
ProcessRef(targetId, found) ==
    /\ planPc = "forEach"
    /\ Len(footnoteRefs) < MaxRefs
    /\ LET ref == [refIndex |-> Len(footnoteRefs), targetId |-> targetId]
           mp == IF found = 0 THEN markerPages ELSE MapSet(markerPages, ref.refIndex, found)
           page == ResolvePage(mp, ref.refIndex)
       IN  /\ footnoteRefs' = Append(footnoteRefs, ref)
           /\ markerPages' = mp
           /\ IF page = 0
              THEN /\ unresolvedRefs' = Append(unresolvedRefs, ref.refIndex)
                   /\ UNCHANGED <<pages, refUpdates, destinationCounter>>
              ELSE LET entry == IF page \in DOMAIN pages THEN pages[page] ELSE NewPageEntry(page)
                       isNew == PlacedItemIndex(entry, ref) = NoItem
                       placed == PlacedEntry(entry, ref, destinationCounter)
                       idx == placed.byTargetId[ref.targetId]
                   IN  /\ pages' = MapSet(pages, page, placed)
                       /\ destinationCounter' = IF isNew THEN destinationCounter + 1
                                                ELSE destinationCounter
                       /\ refUpdates' = Append(refUpdates,
                            [refIndex |-> ref.refIndex,
                             newNumber |-> entry.nextNumber,
                             newLabel |-> ToStr(entry.nextNumber),
                             destName |-> placed.items[idx].destName])
                       /\ UNCHANGED unresolvedRefs
    /\ UNCHANGED <<planResult, planPc, scanVars, layVars, voteVars, sizeVars, lateVars>>

RECURSIVE SortedSeq(_)
SortedSeq(S) == IF S = {} THEN <<>> ELSE <<MinOf(S)>> \o SortedSeq(S \ {MinOf(S)})

PlanItem(item) ==
    [targetId |-> item.targetId, targetIds |-> item.targetIds, number |-> item.number,
     numberLabel |-> IF item.numberLabel # <<>> THEN item.numberLabel
                     ELSE formatFootnoteNumberLabel(item.numbers),
     numbers |-> item.numbers, destName |-> item.destName,
     segments |-> cloneFootnoteSegments(item.segments)]

OrderedPages(pgs) ==
    LET order == SortedSeq(DOMAIN pgs)
    IN  [i \in 1..Len(order) |->
            [page |-> order[i],
             items |-> [j \in 1..Len(pgs[order[i]].items) |-> PlanItem(pgs[order[i]].items[j])]]]

\* lines 620-638: the pages in ascending order, and the return
ReturnPlan ==
    /\ planPc = "forEach"
    /\ planResult' = OrderedPages(pages)
    /\ planPc' = "done"
    /\ UNCHANGED <<footnoteRefs, markerPages, pages, refUpdates, unresolvedRefs,
                   destinationCounter, scanVars, layVars, voteVars, sizeVars, lateVars>>

----------------------------------------------------------------------------
(* Specification of the plan builder *)

PlanIdle ==
    /\ footnoteRefs = <<>>
    /\ markerPages = EmptyMap
    /\ pages = EmptyMap
    /\ refUpdates = <<>>
    /\ unresolvedRefs = <<>>
    /\ destinationCounter = 0
    /\ planResult = <<>>
    /\ planPc = "idle"

ScanIdle ==
    /\ pdfPages = <<>>
    /\ scanPages = EmptyMap
    /\ scanIndex = 0
    /\ scanPc = "idle"

LayIdle ==
    /\ laySegments = <<>>
    /\ layMaxWidth = 0
    /\ lines = <<>>
    /\ currentLine = <<>>
    /\ currentWidth = 0
    /\ layPc = "idle"

LinkIdle ==
    /\ linkHref = <<>>
    /\ linkKnown = {}
    /\ linkResult = [type |-> "none"]
    /\ linkPc = "idle"

NoDoc == [pages |-> <<>>, hasDests |-> FALSE, dests |-> EmptyMap]

InjIdle ==
    /\ injPath = "none"
    /\ finalFootnotePlans = <<>>
    /\ basePdfBytes = NoDoc
    /\ basePdfDoc = NoDoc
    /\ overlayPageCount = 0
    /\ overlayDestinationCoordinates = <<>>
    /\ injIndex = 0
    /\ injPc = "idle"

NoMarkers == [toc |-> 0, footnote |-> 0, table |-> 0]

AsmIdle ==
    /\ asmDoc = [headings |-> 0, refs |-> 0, hasDefinitions |-> FALSE, tableRows |-> 0,
                 disableTableBreaks |-> FALSE]
    /\ domMarkers = NoMarkers
    /\ renders = {}
    /\ contentRendersLeft = 0
    /\ pdfAtPath = "none"
    /\ asmOutcome = "running"
    /\ asmPc = "idle"

\* a timestamp value: null or missing ("none"), a string Date.parse rejects
\* ("garbage"), or a string naming an instant in some notation
NoTime == [kind |-> "none", instant |-> 0, form |-> "iso"]
GarbageTime == [kind |-> "garbage", instant |-> 0, form |-> "iso"]
TimeOf(instant, form) == [kind |-> "time", instant |-> instant, form |-> form]

NoSyncState ==
    [shouldExport |-> FALSE, action |-> "none", reason |-> "none",
     sourceUpdatedAt |-> NoTime, writeMeta |-> FALSE]

NoChild == [kind |-> "none", code |-> 0]

NoStats == [skipped |-> 0, created |-> 0, updated |-> 0, failed |-> 0]

SyncIdle ==
    /\ syncPage = [updatedAt |-> NoTime]
    /\ dryRun = FALSE
    /\ pdfFile = [exists |-> FALSE, mtime |-> 0]
    /\ metaFile = [readable |-> FALSE, sourceUpdatedAt |-> NoTime]
    /\ syncState = NoSyncState
    /\ childResult = NoChild
    /\ stats = NoStats
    /\ syncRun = 0
    /\ syncPc = "idle"

LateIdle == LinkIdle /\ InjIdle /\ AsmIdle /\ SyncIdle

SizeIdle ==
    /\ footnoteAreaMm = 0
    /\ bottomMarginMm = 0
    /\ pageMarginMm = 0
    /\ estimated = 0
    /\ contentRenders = 0
    /\ pagePdfCalls = 0
    /\ renderMarginMm = 0
    /\ planComputes = 0
    /\ planRender = 0
    /\ tocRender = 0
    /\ expansions = 0
    /\ consoleLevels = <<>>
    /\ sizePc = "idle"

\* the vote has not begun
VoteAtRest ==
    /\ tocPageCount = 0
    /\ tocItems = <<>>
    /\ offsetCounts = <<>>
    /\ computedOffset = 0
    /\ tocShown = <<>>
    /\ probedRefs = <<>>
    /\ footnoteOffsetCounts = <<>>
    /\ computedFootnoteOffset = 0
    /\ votePc = "idle"

VoteIdle == hasFootnotes = FALSE /\ VoteAtRest

InitPlan == PlanInit /\ ScanIdle /\ LayIdle /\ VoteIdle /\ SizeIdle /\ LateIdle

NextPlan ==
    \/ \E targetId \in TargetIds, found \in PlanPages \cup {0} : ProcessRef(targetId, found)
    \/ ReturnPlan

SpecPlan == InitPlan /\ [][NextPlan]_vars

----------------------------------------------------------------------------
(* Vocabulary of the properties of the plan *)

IsResolved(ref) == ref.refIndex \in DOMAIN markerPages /\ markerPages[ref.refIndex] > 0

\* the references found on page p, in document order
RefsOn(p) == SelectSeq(footnoteRefs, LAMBDA r : IsResolved(r) /\ markerPages[r.refIndex] = p)

UpdatesOn(p) ==
    SelectSeq(refUpdates,
              LAMBDA u : u.refIndex \in DOMAIN markerPages /\ markerPages[u.refIndex] = p)

RECURSIVE FlattenNumbers(_)
FlattenNumbers(items) ==
    IF items = <<>> THEN <<>> ELSE Head(items).numbers \o FlattenNumbers(Tail(items))

OneToN(n) == [i \in 1..n |-> i]

ItemsOn(p) == IF p \in DOMAIN pages THEN pages[p].items ELSE <<>>

ResultItemsOn(p) ==
    IF \E i \in 1..Len(planResult) : planResult[i].page = p
    THEN planResult[CHOOSE i \in 1..Len(planResult) : planResult[i].page = p].items
    ELSE <<>>

\* every item of the running state and of the returned plan
AllItems ==
    {pages[p].items[i] : <<p, i>> \in {<<p, i>> \in (DOMAIN pages) \X (1..MaxRefs + 1) :
                                          i <= Len(pages[p].items)}}

AllResultItems ==
    {planResult[k].items[i] : <<k, i>> \in {<<k, i>> \in (1..Len(planResult)) \X (1..MaxRefs + 1) :
                                               i <= Len(planResult[k].items)}}

\* index of the item of `items` that holds number n
HolderOf(items, n) ==
    CHOOSE i \in 1..Len(items) : \E j \in 1..Len(items[i].numbers) : items[i].numbers[j] = n

Defined(id) == id \in DOMAIN definitionsById /\ definitionsById[id] # <<>>

----------------------------------------------------------------------------
(* C1: on every page the numbers given to the references found on it are, *)
(* in reference order, exactly 1..N; the numbers lists of the page's      *)
(* items, concatenated in item order, are 1..N.                           *)

C1_NumbersAreOneToN ==
    \A p \in PlanPages :
        LET n == Len(RefsOn(p))
        IN  /\ FlattenNumbers(ItemsOn(p)) = OneToN(n)
            /\ [i \in 1..Len(UpdatesOn(p)) |-> UpdatesOn(p)[i].newNumber] = OneToN(n)
            /\ [i \in 1..Len(UpdatesOn(p)) |-> UpdatesOn(p)[i].refIndex]
                   = [i \in 1..n |-> RefsOn(p)[i].refIndex]
            /\ planPc = "done" => FlattenNumbers(ResultItemsOn(p)) = OneToN(n)

C1_Witness ==
    /\ planPc = "done"
    /\ \E p \in PlanPages :
        /\ Len(RefsOn(p)) = 3
        /\ Len(ResultItemsOn(p)) = 2

----------------------------------------------------------------------------
(* C2 (as amended): the reference that receives number n >= 2 on a page   *)
(* joins the item that holds n-1 if and only if that item has the same    *)
(* targetId, or both targets have a non-empty definition and the two      *)
(* definitions have the same normalised key (buildFootnoteSegmentsKey:    *)
(* hrefs trimmed, runs of whitespace collapsed); otherwise it gets a new  *)
(* item, whose first number is n.                                         *)

SameDefinitionKey(a, b) ==
    /\ Defined(a)
    /\ Defined(b)
    /\ buildFootnoteSegmentsKey(definitionsById[a]) = buildFootnoteSegmentsKey(definitionsById[b])

IdenticalDefinition(a, b) ==
    /\ Defined(a)
    /\ Defined(b)
    /\ definitionsById[a] = definitionsById[b]

\* the merge rule on page p under the relation `same` between two target ids
MergeRule(p, same(_, _)) ==
    \A n \in 2..Len(RefsOn(p)) :
        LET items == ItemsOn(p)
            prev == items[HolderOf(items, n - 1)]
            mine == items[HolderOf(items, n)]
            target == RefsOn(p)[n].targetId
        IN  IF target = prev.targetId \/ same(target, prev.targetId)
            THEN mine = prev
            ELSE mine # prev /\ mine.numbers[1] = n

C2_MergeByTargetOrKey == \A p \in PlanPages : MergeRule(p, SameDefinitionKey)

\* C2 as stated: ... or identical definition content
C2_MergeByTargetOrIdenticalContent == \A p \in PlanPages : MergeRule(p, IdenticalDefinition)

\* two targets whose definitions differ only by a doubled blank share one item,
\* and a reference cut off from its first item by another footnote gets a new one
C2_Witness ==
    /\ planPc = "done"
    /\ \E p \in PlanPages :
        /\ [i \in 1..Len(RefsOn(p)) |-> RefsOn(p)[i].targetId] = <<IdFn1, IdNote, IdLong>>
        /\ Len(ResultItemsOn(p)) = 2
        /\ ResultItemsOn(p)[1].numbers = <<1, 2>>
        /\ ResultItemsOn(p)[2].numbers = <<3>>

\* the same target twice, cut apart by another footnote: three items
C2_WitnessSeparated ==
    /\ planPc = "done"
    /\ \E p \in PlanPages :
        /\ [i \in 1..Len(RefsOn(p)) |-> RefsOn(p)[i].targetId] = <<IdFn1, IdLong, IdFn1>>
        /\ Len(ResultItemsOn(p)) = 3

----------------------------------------------------------------------------
(* C3: an item with more than one number is displayed as the comma-joined *)
(* list of its numbers, without a trailing period; an item with exactly   *)
(* one number N is displayed as "N.".                                     *)

ExpectedLabel(numbers) ==
    IF Len(numbers) > 1
    THEN JoinWith([i \in 1..Len(numbers) |-> ToStr(numbers[i])], <<",", " ">>)
    ELSE ToStr(numbers[1]) \o <<".">>

C3_DisplayLabel ==
    \A item \in AllItems \cup AllResultItems :
        /\ getFootnoteDisplayLabel(item) = ExpectedLabel(item.numbers)
        /\ Len(item.numbers) > 1 =>
               getFootnoteDisplayLabel(item)[Len(getFootnoteDisplayLabel(item))] # "."

C3_Witness ==
    /\ planPc = "done"
    /\ \E a \in AllResultItems : a.numbers = <<1, 2, 3>>
                                 /\ getFootnoteDisplayLabel(a) = <<"1", ",", " ", "2", ",", " ", "3">>

C3_WitnessSingle ==
    \E b \in AllResultItems : b.numbers = <<2>> /\ getFootnoteDisplayLabel(b) = <<"2", ".">>

----------------------------------------------------------------------------
(* C4 (as amended): a page with exactly two references, both to the same  *)
(* target, has exactly one item, and that item is displayed as "1, 2"     *)
(* (a grouped label carries no trailing period).                          *)

TwoBackToBack(p) ==
    /\ Len(RefsOn(p)) = 2
    /\ RefsOn(p)[1].targetId = RefsOn(p)[2].targetId

C4_OneItemLabelled12 ==
    planPc = "done" =>
        \A p \in PlanPages :
            TwoBackToBack(p) =>
                /\ Len(ResultItemsOn(p)) = 1
                /\ getFootnoteDisplayLabel(ResultItemsOn(p)[1]) = <<"1", ",", " ", "2">>

\* C4 as stated: the label is "1, 2."
C4_OneItemLabelled12Period ==
    planPc = "done" =>
        \A p \in PlanPages :
            TwoBackToBack(p) =>
                /\ Len(ResultItemsOn(p)) = 1
                /\ getFootnoteDisplayLabel(ResultItemsOn(p)[1]) = <<"1", ",", " ", "2", ".">>

C4_Witness ==
    /\ planPc = "done"
    /\ \E p \in PlanPages :
        /\ TwoBackToBack(p)
        /\ Defined(RefsOn(p)[1].targetId)
        /\ Len(ResultItemsOn(p)) = 1
        /\ ResultItemsOn(p)[1].numberLabel = <<"1", ",", " ", "2">>

----------------------------------------------------------------------------
(* C5: a reference whose refIndex has no page in the marker map is pushed *)
(* exactly once to unresolvedRefs, gets no refUpdate and no number on any *)
(* page (page 1 included), and is part of no item; the resolved ones are  *)
(* never pushed to unresolvedRefs.                                        *)

CountIn(seq, x) == Cardinality({i \in 1..Len(seq) : seq[i] = x})

RECURSIVE SumLen(_)
SumLen(items) == IF items = <<>> THEN 0 ELSE Len(Head(items).numbers) + SumLen(Tail(items))

C5_UnresolvedReported ==
    /\ \A i \in 1..Len(footnoteRefs) :
        LET ref == footnoteRefs[i]
        IN  IF ref.refIndex \in DOMAIN markerPages
            THEN CountIn(unresolvedRefs, ref.refIndex) = 0
            ELSE /\ CountIn(unresolvedRefs, ref.refIndex) = 1
                 /\ \A u \in 1..Len(refUpdates) : refUpdates[u].refIndex # ref.refIndex
    /\ \A p \in PlanPages :
        /\ SumLen(ItemsOn(p)) = Len(RefsOn(p))
        /\ \A k \in 1..Len(ItemsOn(p)) :
            \A t \in 1..Len(ItemsOn(p)[k].targetIds) :
                \E r \in 1..Len(RefsOn(p)) : RefsOn(p)[r].targetId = ItemsOn(p)[k].targetIds[t]
        /\ planPc = "done" => SumLen(ResultItemsOn(p)) = Len(RefsOn(p))
    /\ planPc = "done" => Len(planResult) = Cardinality({p \in PlanPages : RefsOn(p) # <<>>})

\* an unresolved reference between two resolved ones, and page 1 without any item
C5_Witness ==
    /\ planPc = "done"
    /\ Len(footnoteRefs) = 3
    /\ unresolvedRefs = <<1>>
    /\ Len(refUpdates) = 2
    /\ ResultItemsOn(1) = <<>>
    /\ Len(ResultItemsOn(2)) = 1

----------------------------------------------------------------------------
(* C6: a resolved reference whose target has no definition, or an empty   *)
(* one, still gets the next number of its page, in an item whose body is  *)
(* the single placeholder segment, without a link.                        *)

IsPlaceholderBody(segments) ==
    /\ Len(segments) = 1
    /\ segments[1].text = PlaceholderText
    /\ ~segments[1].hasHref

C6_MissingDefinitionPlaceholder ==
    /\ \A item \in AllItems \cup AllResultItems :
        (item.targetId \notin DOMAIN definitionsById \/ definitionsById[item.targetId] = <<>>)
            => IsPlaceholderBody(item.segments)
    /\ \A p \in PlanPages :
        \A n \in 1..Len(RefsOn(p)) :
            ~Defined(RefsOn(p)[n].targetId) =>
                /\ Len(UpdatesOn(p)) >= n
                /\ UpdatesOn(p)[n].refIndex = RefsOn(p)[n].refIndex
                /\ UpdatesOn(p)[n].newNumber = n
                /\ \E k \in 1..Len(ItemsOn(p)) :
                    /\ \E j \in 1..Len(ItemsOn(p)[k].numbers) : ItemsOn(p)[k].numbers[j] = n
                    /\ IsPlaceholderBody(ItemsOn(p)[k].segments)
                    /\ ItemsOn(p)[k].destName = UpdatesOn(p)[n].destName

\* a target without definition and one with an empty definition, after a defined one
C6_Witness ==
    /\ planPc = "done"
    /\ \E p \in PlanPages :
        /\ [i \in 1..Len(RefsOn(p)) |-> RefsOn(p)[i].targetId] = <<IdFn1, IdGone, IdSym>>
        /\ Len(ResultItemsOn(p)) = 3
        /\ IsPlaceholderBody(ResultItemsOn(p)[2].segments)
        /\ IsPlaceholderBody(ResultItemsOn(p)[3].segments)
        /\ ResultItemsOn(p)[3].numbers = <<3>>

----------------------------------------------------------------------------
(* C8: within one plan all items of all pages have pairwise distinct      *)
(* destName values.                                                       *)

ItemPositions ==
    {<<p, i>> \in (DOMAIN pages) \X (1..MaxRefs + 1) : i <= Len(pages[p].items)}

ResultPositions ==
    {<<k, i>> \in (1..Len(planResult)) \X (1..MaxRefs + 1) : i <= Len(planResult[k].items)}

C8_DestNamesDistinct ==
    /\ \A a, b \in ItemPositions :
        a # b => pages[a[1]].items[a[2]].destName # pages[b[1]].items[b[2]].destName
    /\ \A a, b \in ResultPositions :
        a # b => planResult[a[1]].items[a[2]].destName # planResult[b[1]].items[b[2]].destName

\* one target twice on one page, not contiguously: the same token, two names
C8_Witness ==
    /\ planPc = "done"
    /\ \E k \in 1..Len(planResult) :
        /\ Len(planResult[k].items) = 3
        /\ planResult[k].items[1].targetId = IdFn1
        /\ planResult[k].items[3].targetId = IdFn1
        /\ planResult[k].items[1].destName = DestPrefix \o <<"1", "-", "f", "n", "1">>
        /\ planResult[k].items[3].destName = DestPrefix \o <<"3", "-", "f", "n", "1">>

----------------------------------------------------------------------------
(* C9 (as amended): every destination name of a footnote item is          *)
(* "export-footnote-<k>-<token>" with k a positive counter value and      *)
(* <token> non-empty, at most 48 characters long; the whole name holds    *)
(* only characters of [a-z0-9_-] and is not empty. (The 48 characters     *)
(* bound the token, not the name.)                                        *)

AllSafeChars(s) == \A i \in 1..Len(s) : IsSafeTokenChar(s[i])

IsPrefixOf(pre, s) == Len(pre) <= Len(s) /\ SubSeq(s, 1, Len(pre)) = pre

WellFormedDestName(name) ==
    /\ name # <<>>
    /\ AllSafeChars(name)
    /\ \E k \in 1..MaxRefs + 1 :
        LET pre == DestPrefix \o ToStr(k) \o <<"-">>
        IN  /\ IsPrefixOf(pre, name)
            /\ Len(name) - Len(pre) >= 1
            /\ Len(name) - Len(pre) <= 48

\* ids that sanitize to nothing: the empty id, blanks, symbols only
EmptyTokenIds == {<<>>, <<" ", " ">>, <<"-", "#", "-">>}

C9_DestNameSanitized ==
    /\ \A item \in AllItems \cup AllResultItems : WellFormedDestName(item.destName)
    /\ \A id \in EmptyTokenIds :
        WellFormedDestName(MakeDestName(destinationCounter + 1,
                                        sanitizeFootnoteToken(id, FallbackToken(1))))

\* C9 as stated: the destination name is at most 48 characters long
C9_DestNameAtMost48 ==
    \A item \in AllItems \cup AllResultItems :
        /\ item.destName # <<>>
        /\ AllSafeChars(item.destName)
        /\ Len(item.destName) <= 48

\* a 50-character id cut to 48, an id of symbols only, an id with capitals and a blank
C9_Witness ==
    /\ planPc = "done"
    /\ \E a, b, c \in AllResultItems :
        /\ a.targetId = IdLong /\ Len(a.destName) = Len(DestPrefix) + 2 + 48
        /\ b.targetId = IdSym /\ b.destName = DestPrefix \o <<"2", "-", "f", "n", "-", "1">>
        /\ c.targetId = IdNote /\ c.destName = DestPrefix \o <<"3", "-", "n", "o", "t", "e", "-", "2">>

----------------------------------------------------------------------------
(* extractMarkerPagesFromPdf *)

\* markerPrefix and markerSuffix, shortened
MarkerPrefix == <<"_", "M", "_">>

MarkerSuffix == <<"_", "E", "_">>

\* the text of a marker span: `${prefix}${index}${suffix}`
MarkerToken(index) == MarkerPrefix \o ToStr(index) \o MarkerSuffix

\* indices of the markers of the document
MarkerIndices == {0, 1, 10}

\* the marker of index 1 as text extraction may return it, cut into items
SpacedToken == MarkerPrefix \o <<" ">> \o <<"1">> \o <<"\n", " ">> \o MarkerSuffix

\* The text items a page is made of: the markers the exporter inserted and
\* content, which does not hold the marker prefix.
TextItems == {MarkerToken(i) : i \in MarkerIndices} \cup {SpacedToken, <<"a", " ">>, <<"1">>}

PageTexts == {<<>>} \cup TextItems \cup {a \o b : a \in TextItems, b \in TextItems}

MatchesAt(text, pos, word) ==
    /\ pos + Len(word) - 1 <= Len(text)
    /\ SubSeq(text, pos, pos + Len(word) - 1) = word

\* the length of the run of digits that starts at pos
RECURSIVE DigitRun(_, _)
DigitRun(text, pos) ==
    IF pos <= Len(text) /\ IsDigit(text[pos]) THEN 1 + DigitRun(text, pos + 1) ELSE 0

\* prefix(\d+)suffix at pos: the length of the match, 0 when there is none
MatchLength(text, pos) ==
    IF ~MatchesAt(text, pos, MarkerPrefix) THEN 0
    ELSE LET d == DigitRun(text, pos + Len(MarkerPrefix))
         IN  IF d > 0 /\ MatchesAt(text, pos + Len(MarkerPrefix) + d, MarkerSuffix)
             THEN Len(MarkerPrefix) + d + Len(MarkerSuffix)
             ELSE 0

\* a later page overwrites the page of an index
RecordMarker_Overwrite(found, index, pageIndex) == MapSet(found, index, pageIndex)

\* !markerPages.has(index) guards markerPages.set(index, pageIndex)
RecordMarker(found, index, pageIndex) ==
    IF index \in DOMAIN found THEN found ELSE MapSet(found, index, pageIndex)

\* the while loop over pattern.exec(normalized), from position pos on
RECURSIVE ExecLoop(_, _, _, _)
ExecLoop(normalized, pos, found, pageIndex) ==
    IF pos > Len(normalized) THEN found
    ELSE LET n == MatchLength(normalized, pos)
         IN  IF n = 0 THEN ExecLoop(normalized, pos + 1, found, pageIndex)
             ELSE LET from == pos + Len(MarkerPrefix)
                      index == ToNum(SubSeq(normalized, from, from + DigitRun(normalized, from) - 1))
                  IN  ExecLoop(normalized, pos + n, RecordMarker(found, index, pageIndex), pageIndex)

ScanInit ==
    /\ pdfPages = <<>>
    /\ scanPages = EmptyMap
    /\ scanIndex = 0
    /\ scanPc = "scan"

\* one iteration of the loop over the pages (lines 361-374), on a page of text `text`
ScanPage(text) ==
    /\ scanPc = "scan"
    /\ scanIndex < MaxPdfPages
    /\ pdfPages' = Append(pdfPages, text)
    /\ scanIndex' = scanIndex + 1
    /\ scanPages' = ExecLoop(StripWhitespace(text), 1, scanPages, scanIndex + 1)
    /\ UNCHANGED <<scanPc, planVars, layVars, voteVars, sizeVars, lateVars>>

\* line 376: return { markerPages, pageCount }
ReturnScan ==
    /\ scanPc = "scan"
    /\ scanPc' = "done"
    /\ UNCHANGED <<pdfPages, scanPages, scanIndex, planVars, layVars, voteVars, sizeVars, lateVars>>

InitScan == PlanIdle /\ ScanInit /\ LayIdle /\ VoteIdle /\ SizeIdle /\ LateIdle

NextScan ==
    \/ \E text \in PageTexts : ScanPage(text)
    \/ ReturnScan

SpecScan == InitScan /\ [][NextScan]_vars

----------------------------------------------------------------------------
(* C7: each marker index is mapped to exactly one page, the first page    *)
(* whose text, whitespace removed, contains prefix+index+suffix; a later  *)
(* page with the same token never overwrites it, and an index whose token *)
(* is on no page has no entry.                                            *)

Contains(text, word) == \E pos \in 1..Len(text) : MatchesAt(text, pos, word)

\* the pages of `texts` that hold the token of `index`
PagesHolding(texts, index) ==
    {k \in 1..Len(texts) : Contains(texts[k], MarkerToken(index))}

IndexRange == 0..11

C7_FirstPageWins ==
    LET stripped == [k \in 1..Len(pdfPages) |-> StripWhitespace(pdfPages[k])]
    IN  /\ DOMAIN scanPages \subseteq IndexRange
        /\ \A index \in IndexRange :
            LET holding == PagesHolding(stripped, index)
            IN  IF holding = {}
                THEN index \notin DOMAIN scanPages
                ELSE /\ index \in DOMAIN scanPages
                     /\ scanPages[index] = MinOf(holding)

\* marker 1 on both pages (cut by whitespace on the first), marker 10 on the second only
C7_Witness ==
    /\ scanPc = "done"
    /\ Len(pdfPages) = 2
    /\ pdfPages[1] = SpacedToken \o <<"1">>
    /\ pdfPages[2] = MarkerToken(10) \o MarkerToken(1)
    /\ scanPages[1] = 1
    /\ scanPages[10] = 2
    /\ 0 \notin DOMAIN scanPages

----------------------------------------------------------------------------
(* Text flow layout: tokenizeFootnoteText, splitWordByWidth,              *)
(* layoutFootnoteSegments                                                 *)

\* font.widthOfTextAtSize: the advance widths of the glyphs, added up
GlyphWidth(c) == IF c = "a" THEN 2 ELSE IF c = "b" THEN 3 ELSE IF c = " " THEN 1 ELSE 0

RECURSIVE WidthOfText(_)
WidthOfText(text) ==
    IF text = <<>> THEN 0 ELSE GlyphWidth(Head(text)) + WidthOfText(Tail(text))

\* .replace(/\r\n/g, '\n').replace(/\r/g, '\n').replace(/\u00A0/g, ' ')
RECURSIVE NormalizeText(_)
NormalizeText(text) ==
    IF text = <<>> THEN <<>>
    ELSE IF Head(text) = "\r"
         THEN IF Len(text) > 1 /\ text[2] = "\n"
              THEN <<"\n">> \o NormalizeText(Tail(Tail(text)))
              ELSE <<"\n">> \o NormalizeText(Tail(text))
         ELSE IF Head(text) = NBSP
              THEN <<" ">> \o NormalizeText(Tail(text))
              ELSE <<Head(text)>> \o NormalizeText(Tail(text))

Token(type, text) == [type |-> type, text |-> text]

\* the buffered word is thrown away
Flush_Drop(tokens, buffer) == tokens

\* flush(): the buffered word becomes a text token
Flush(tokens, buffer) ==
    IF buffer = <<>> THEN tokens ELSE Append(tokens, Token("text", buffer))

RECURSIVE TokenizeLoop(_, _, _)
TokenizeLoop(chars, tokens, buffer) ==
    IF chars = <<>> THEN Flush(tokens, buffer)
    ELSE LET char == Head(chars)
             flushed == Flush(tokens, buffer)
         IN  IF char = "\n"
             THEN TokenizeLoop(Tail(chars), Append(flushed, Token("newline", <<>>)), <<>>)
             ELSE IF IsWhitespace(char)
                  THEN TokenizeLoop(Tail(chars),
                         IF flushed = <<>> \/ flushed[Len(flushed)].type # "space"
                         THEN Append(flushed, Token("space", <<" ">>))
                         ELSE flushed,
                         <<>>)
                  ELSE TokenizeLoop(Tail(chars), tokens, Append(buffer, char))

tokenizeFootnoteText(text) == TokenizeLoop(NormalizeText(text), <<>>, <<>>)

RECURSIVE SplitLoop(_, _, _, _)
SplitLoop(glyphs, parts, chunk, maxWidthPt) ==
    IF glyphs = <<>> THEN (IF chunk # <<>> THEN Append(parts, chunk) ELSE parts)
    ELSE LET candidate == Append(chunk, Head(glyphs))
         IN  IF chunk # <<>> /\ WidthOfText(candidate) > maxWidthPt
             THEN SplitLoop(Tail(glyphs), Append(parts, chunk), <<Head(glyphs)>>, maxWidthPt)
             ELSE SplitLoop(Tail(glyphs), parts, candidate, maxWidthPt)

\* the chunk is pushed without asking whether it holds a glyph: a first glyph
\* wider than the budget leaves an empty chunk before it
splitWordByWidth_NoGuard(word, maxWidthPt) ==
    IF word # <<>> /\ GlyphWidth(Head(word)) > maxWidthPt
    THEN <<<<>>>> \o SplitLoop(word, <<>>, <<>>, maxWidthPt)
    ELSE SplitLoop(word, <<>>, <<>>, maxWidthPt)

splitWordByWidth(word, maxWidthPt) == SplitLoop(word, <<>>, <<>>, maxWidthPt)

\* The closures of layoutFootnoteSegments act on L = [lines, currentLine, currentWidth].

LayoutState(ls, line, width) == [lines |-> ls, currentLine |-> line, currentWidth |-> width]

\* the trailing space fragments stay on the line
trimTrailingSpaces_Keep(L) == L

RECURSIVE trimTrailingSpaces(_)
trimTrailingSpaces(L) ==
    LET n == Len(L.currentLine)
    IN  IF n > 0 /\ L.currentLine[n].isSpace
        THEN trimTrailingSpaces(LayoutState(L.lines, SubSeq(L.currentLine, 1, n - 1),
                                            L.currentWidth - L.currentLine[n].width))
        ELSE L

commitLine(L, allowEmpty) ==
    LET T == trimTrailingSpaces(L)
    IN  LayoutState(IF allowEmpty \/ Len(T.currentLine) > 0
                    THEN Append(T.lines, T.currentLine) ELSE T.lines,
                    <<>>, 0)

\* href || null
HasLink(segment) == segment.hasHref /\ segment.href # <<>>

appendFragment(L, text, segment, isSpace) ==
    IF text = <<>> THEN L
    ELSE LET width == WidthOfText(text)
             n == Len(L.currentLine)
             href == IF HasLink(segment) THEN segment.href ELSE NoHref
         IN  IF width <= 0 THEN L
             ELSE IF /\ n > 0
                     /\ L.currentLine[n].hasHref = HasLink(segment)
                     /\ L.currentLine[n].href = href
                     /\ L.currentLine[n].isSpace = isSpace
                  THEN LayoutState(L.lines,
                                   [L.currentLine EXCEPT ![n].text = @ \o text,
                                                         ![n].width = @ + width],
                                   L.currentWidth + width)
                  ELSE LayoutState(L.lines,
                                   Append(L.currentLine,
                                          [text |-> text, hasHref |-> HasLink(segment),
                                           href |-> href, width |-> width, isSpace |-> isSpace]),
                                   L.currentWidth + width)

\* a piece is never moved to a new line
Overflows_Never(width, pieceWidth, maxWidthPt) == FALSE

\* lines 775 and 786: the line is not empty and the next piece does not fit
Overflows(width, pieceWidth, maxWidthPt) == width > 0 /\ width + pieceWidth > maxWidthPt

\* chunks.forEach (lines 773-782), from chunk number index on
RECURSIVE PlaceChunks(_, _, _, _, _)
PlaceChunks(L, chunks, index, segment, maxWidthPt) ==
    IF index > Len(chunks) THEN L
    ELSE LET chunkWidth == WidthOfText(chunks[index])
             L1 == IF Overflows(L.currentWidth, chunkWidth, maxWidthPt)
                   THEN commitLine(L, FALSE) ELSE L
             L2 == appendFragment(L1, chunks[index], segment, FALSE)
             L3 == IF index < Len(chunks) THEN commitLine(L2, FALSE) ELSE L2
         IN  PlaceChunks(L3, chunks, index + 1, segment, maxWidthPt)

\* the callback of tokens.forEach (lines 756-792)
PlaceToken(L, token, segment, maxWidthPt) ==
    IF token.type = "newline" THEN commitLine(L, TRUE)
    ELSE LET text == token.text
             isSpace == token.type = "space"
             width == WidthOfText(text)
         IN  IF text = <<>> THEN L
             ELSE IF isSpace /\ L.currentWidth <= 0 THEN L
             ELSE IF ~isSpace /\ width > maxWidthPt
                  THEN PlaceChunks(L, splitWordByWidth(text, maxWidthPt), 1, segment, maxWidthPt)
             ELSE IF Overflows(L.currentWidth, width, maxWidthPt)
                  THEN IF isSpace THEN commitLine(L, FALSE)
                       ELSE appendFragment(commitLine(L, FALSE), text, segment, isSpace)
                  ELSE appendFragment(L, text, segment, isSpace)

RECURSIVE PlaceTokens(_, _, _, _)
PlaceTokens(L, tokens, segment, maxWidthPt) ==
    IF tokens = <<>> THEN L
    ELSE PlaceTokens(PlaceToken(L, Head(tokens), segment, maxWidthPt),
                     Tail(tokens), segment, maxWidthPt)

\* lines 795-803: the last line, and the empty line of an empty layout
FinalLines(L) ==
    LET T == trimTrailingSpaces(L)
        ls == IF T.currentLine # <<>> THEN Append(T.lines, T.currentLine) ELSE T.lines
    IN  IF ls = <<>> THEN <<<<>>>> ELSE ls

\* Inputs of the layout

LayoutAlphabet == {"a", "b", " ", "\n"}

TextsUpTo(n) == UNION {[1..k -> LayoutAlphabet] : k \in 0..n}

\* words that split into chunks of more than one glyph
LongWords == {<<"a", "a", "a">>, <<"a", "b", "a", "b">>}

SegmentTexts == TextsUpTo(MaxTextLen) \cup LongWords

LinkHref == <<"#", "h">>

SegmentInputs ==
    {Seg(t, FALSE, NoHref) : t \in SegmentTexts} \cup {Seg(t, TRUE, LinkHref) : t \in SegmentTexts}

SegmentCounts == 0..2

WidthBudgets == {1, 2, 4, 5, 6}

LayInit ==
    /\ laySegments = <<>>
    /\ layMaxWidth \in WidthBudgets
    /\ lines = <<>>
    /\ currentLine = <<>>
    /\ currentWidth = 0
    /\ layPc = "forEach"

\* the callback of segments.forEach (lines 752-793) on the next segment
LayoutSegment(segment) ==
    /\ layPc = "forEach"
    /\ Len(laySegments) + 1 \in SegmentCounts
    /\ LET L == PlaceTokens(LayoutState(lines, currentLine, currentWidth),
                            tokenizeFootnoteText(segment.text), segment, layMaxWidth)
       IN  /\ lines' = L.lines
           /\ currentLine' = L.currentLine
           /\ currentWidth' = L.currentWidth
    /\ laySegments' = Append(laySegments, segment)
    /\ UNCHANGED <<layMaxWidth, layPc, planVars, scanVars, voteVars, sizeVars, lateVars>>

\* lines 795-803: the layout returns its lines
ReturnLines ==
    /\ layPc = "forEach"
    /\ lines' = FinalLines(LayoutState(lines, currentLine, currentWidth))
    /\ currentLine' = <<>>
    /\ currentWidth' = 0
    /\ layPc' = "done"
    /\ UNCHANGED <<laySegments, layMaxWidth, planVars, scanVars, voteVars, sizeVars, lateVars>>

InitLayout == PlanIdle /\ ScanIdle /\ LayInit /\ VoteIdle /\ SizeIdle /\ LateIdle

NextLayout ==
    \/ \E segment \in SegmentInputs : LayoutSegment(segment)
    \/ ReturnLines

SpecLayout == InitLayout /\ [][NextLayout]_vars

----------------------------------------------------------------------------
(* C10: the fragment widths of every line of the layout add up to at most *)
(* the width budget, unless the line is a single glyph that is wider than *)
(* the budget by itself.                                                  *)

RECURSIVE LineWidth(_)
LineWidth(line) == IF line = <<>> THEN 0 ELSE Head(line).width + LineWidth(Tail(line))

IsWideGlyph(line) ==
    /\ Len(line) = 1
    /\ Len(line[1].text) = 1
    /\ GlyphWidth(line[1].text[1]) > layMaxWidth

C10_LinesFitBudget ==
    \A i \in 1..Len(lines) :
        /\ \A f \in 1..Len(lines[i]) : lines[i][f].width = WidthOfText(lines[i][f].text)
        /\ LineWidth(lines[i]) <= layMaxWidth \/ IsWideGlyph(lines[i])

\* a word cut into chunks: one fills the budget, one is a glyph wider than the budget
C10_Witness ==
    /\ layPc = "done"
    /\ Len(lines) >= 3
    /\ \E i \in 1..Len(lines) : lines[i] # <<>> /\ LineWidth(lines[i]) = layMaxWidth
    /\ \E i \in 1..Len(lines) : IsWideGlyph(lines[i])

\* a line filled by a chunk of two glyphs
C10_WitnessChunk ==
    /\ layPc = "done"
    /\ \E i \in 1..Len(lines) :
        LineWidth(lines[i]) = layMaxWidth /\ Len(lines[i]) = 1 /\ Len(lines[i][1].text) = 2
    /\ laySegments[1].text = <<"a", "b", "a", "b">>

----------------------------------------------------------------------------
(* Vocabulary of the layout properties *)

\* the texts of a sequence of segments or of fragments, joined
RECURSIVE ConcatTexts(_)
ConcatTexts(items) ==
    IF items = <<>> THEN <<>> ELSE Head(items).text \o ConcatTexts(Tail(items))

\* the fragment texts of a sequence of lines, line after line
RECURSIVE ConcatLines(_)
ConcatLines(ls) ==
    IF ls = <<>> THEN <<>> ELSE ConcatTexts(Head(ls)) \o ConcatLines(Tail(ls))

\* the text laid out so far: the committed lines and the open line
LaidOutText == ConcatLines(lines) \o ConcatTexts(currentLine)

WithoutNewlines(text) == SelectSeq(text, LAMBDA c : c # "\n")

\* the text tokens of a segment text
WordsOf(text) ==
    LET tokens == tokenizeFootnoteText(text)
    IN  {tokens[i].text : i \in {j \in 1..Len(tokens) : tokens[j].type = "text"}}

\* the words of the segments laid out so far
LaidOutWords == UNION {WordsOf(laySegments[i].text) : i \in 1..Len(laySegments)}

AllFragments == UNION {{lines[i][f] : f \in 1..Len(lines[i])} : i \in 1..Len(lines)}

----------------------------------------------------------------------------
(* C11: the fragment texts of the layout, joined in line order, hold the  *)
(* characters of the joined segment texts that are not whitespace, in the *)
(* same order; whitespace is outside the round trip (glyphs of the model  *)
(* other than whitespace have a positive width).                          *)

C11_WordsRoundTrip ==
    StripWhitespace(LaidOutText) = StripWhitespace(ConcatTexts(laySegments))

\* a word cut into chunks, a collapsed blank and a wrap that dropped a blank
C11_Witness ==
    /\ layPc = "done"
    /\ layMaxWidth = 4
    /\ laySegments = <<Seg(<<"a", "a", "a">>, FALSE, NoHref), Seg(<<" ", "a">>, TRUE, LinkHref)>>
    /\ Len(lines) = 3
    /\ Len(lines[1][1].text) = 2
    /\ ConcatLines(lines) = <<"a", "a", "a", "a">>

\* C11 as stated: the joined fragment texts are the joined segment texts,
\* the line breaks of the text left aside
C11_TextRoundTrip ==
    layPc = "done" => ConcatLines(lines) = WithoutNewlines(ConcatTexts(laySegments))

----------------------------------------------------------------------------
(* C12: splitWordByWidth cuts every word of the laid out segments, under  *)
(* the width budget of the layout, into chunks that each hold at least    *)
(* one glyph and that join to the word; a chunk of several glyphs fits    *)
(* the budget, so under a budget below every glyph of the word each chunk *)
(* is a single glyph.                                                     *)

C12_ChunksNonEmpty ==
    \A word \in LaidOutWords :
        LET chunks == splitWordByWidth(word, layMaxWidth)
        IN  /\ Len(chunks) >= 1
            /\ \A k \in 1..Len(chunks) :
                /\ chunks[k] # <<>>
                /\ Len(chunks[k]) > 1 => WidthOfText(chunks[k]) <= layMaxWidth
            /\ ConcatTexts([k \in 1..Len(chunks) |-> [text |-> chunks[k]]]) = word
            /\ (\A g \in 1..Len(word) : GlyphWidth(word[g]) > layMaxWidth)
                  => Len(chunks) = Len(word)

\* a budget below the narrowest glyph: the word of four glyphs is four lines
C12_Witness ==
    /\ layPc = "done"
    /\ layMaxWidth = 1
    /\ <<"a", "b", "a", "b">> \in LaidOutWords
    /\ Len(splitWordByWidth(<<"a", "b", "a", "b">>, layMaxWidth)) = 4
    /\ Len(lines) >= 4

----------------------------------------------------------------------------
(* C13: no line of the layout holds two space fragments next to each      *)
(* other, and no space fragment holds more than one space.                *)

C13_OneSpacePerRun ==
    \A i \in 1..Len(lines) :
        /\ \A f \in 1..Len(lines[i]) :
            lines[i][f].isSpace => lines[i][f].text = <<" ">>
        /\ \A f \in 1..(Len(lines[i]) - 1) :
            ~(lines[i][f].isSpace /\ lines[i][f + 1].isSpace)

----------------------------------------------------------------------------
(* C14: no line of the layout begins with a space fragment and none ends  *)
(* with one; a space fragment holds blanks only and no other fragment     *)
(* holds whitespace.                                                      *)

C14_NoEdgeSpaces ==
    /\ \A i \in 1..Len(lines) :
        lines[i] # <<>> => ~lines[i][1].isSpace /\ ~lines[i][Len(lines[i])].isSpace
    /\ \A frag \in AllFragments :
        /\ frag.text # <<>>
        /\ frag.isSpace <=> (\A c \in 1..Len(frag.text) : frag.text[c] = " ")
        /\ ~frag.isSpace => (\A c \in 1..Len(frag.text) : ~IsWhitespace(frag.text[c]))

\* a blank before an explicit line break is trimmed, a blank after it is dropped
C14_Witness ==
    /\ layPc = "done"
    /\ laySegments = <<Seg(<<"a", " ">>, FALSE, NoHref), Seg(<<"\n", " ">>, FALSE, NoHref)>>
    /\ lines = <<<<[text |-> <<"a">>, hasHref |-> FALSE, href |-> NoHref, width |-> 2, isSpace |-> FALSE]>>>>

\* a blank that ends the text is trimmed from the last line
C14_WitnessLast ==
    /\ layPc = "done"
    /\ layMaxWidth = 6
    /\ laySegments = <<Seg(<<"a", " ">>, FALSE, NoHref), Seg(<<"b", " ">>, TRUE, LinkHref)>>
    /\ Len(lines) = 1
    /\ Len(lines[1]) = 3

----------------------------------------------------------------------------
(* The page offset vote of savePdf (lines 4438-4504)                      *)

\* Map.get of a marker that the render does not hold: undefined
NoPage == 0

\* a heading or a reference with the page of its marker in the content
\* render (markerPages.get) and in the probe render (probeMarkerPages.get)
Reading(page, probePage) == [page |-> page, probePage |-> probePage]

MarkerReadings ==
    {Reading(NoPage, 3), Reading(1, NoPage),
     Reading(1, 2), Reading(1, 3), Reading(1, 4), Reading(2, 4)}

TocPageCounts == {1, 2}

\* the count is set to one whatever it was
CountDelta_One(counts, delta) ==
    IF \E i \in 1..Len(counts) : counts[i].delta = delta
    THEN counts
    ELSE Append(counts, [delta |-> delta, count |-> 1])

\* offsetCounts.set(delta, (offsetCounts.get(delta) || 0) + 1); the Map
\* keeps its keys in insertion order
CountDelta(counts, delta) ==
    IF \E i \in 1..Len(counts) : counts[i].delta = delta
    THEN [i \in 1..Len(counts) |->
            IF counts[i].delta = delta THEN [counts[i] EXCEPT !.count = @ + 1] ELSE counts[i]]
    ELSE Append(counts, [delta |-> delta, count |-> 1])

\* the callback of tocItems.forEach (lines 4450-4456) and of
\* footnoteRefs.forEach (lines 4485-4492)
TallyReading(counts, reading) ==
    IF reading.page = NoPage \/ reading.probePage = NoPage THEN counts
    ELSE CountDelta(counts, reading.probePage - reading.page)

\* offsetCounts.forEach (lines 4459-4464, 4496-4501)
RECURSIVE SelectLoop(_, _, _)
SelectLoop(counts, computed, topCount) ==
    IF counts = <<>> THEN computed
    ELSE IF Head(counts).count > topCount
         THEN SelectLoop(Tail(counts), Head(counts).delta, Head(counts).count)
         ELSE SelectLoop(Tail(counts), computed, topCount)

SelectOffset(counts, fallback) == SelectLoop(counts, fallback, 0)

\* the page text is the page of the content render
PageShown_NoOffset(item, pageOffset, showNumbers) ==
    IF showNumbers /\ item.page # NoPage THEN ToStr(item.page) ELSE <<>>

\* pageSpan.textContent (lines 4361-4367); item.page is null for a heading
\* whose marker the content render does not hold (line 4131)
PageShown(item, pageOffset, showNumbers) ==
    IF showNumbers /\ item.page # NoPage THEN ToStr(item.page + pageOffset) ELSE <<>>

renderToc(items, pageOffset, showNumbers) ==
    [i \in 1..Len(items) |-> PageShown(items[i], pageOffset, showNumbers)]

VoteInit ==
    /\ hasFootnotes \in BOOLEAN
    /\ tocPageCount \in TocPageCounts
    /\ tocItems = <<>>
    /\ offsetCounts = <<>>
    /\ computedOffset = tocPageCount
    /\ tocShown = <<>>
    /\ probedRefs = <<>>
    /\ footnoteOffsetCounts = <<>>
    /\ computedFootnoteOffset = 0
    /\ votePc = "tocItems"

\* lines 4450-4456 on the next heading
TallyTocItem(reading) ==
    /\ votePc = "tocItems"
    /\ Len(tocItems) + Len(probedRefs) < MaxAnchors
    /\ tocItems' = Append(tocItems, reading)
    /\ offsetCounts' = TallyReading(offsetCounts, reading)
    /\ UNCHANGED <<hasFootnotes, tocPageCount, computedOffset, tocShown, probedRefs,
                   footnoteOffsetCounts, computedFootnoteOffset, votePc,
                   planVars, scanVars, layVars, sizeVars, lateVars>>

\* lines 4457-4468: the offset is selected; the table of contents, rendered
\* with tocPageCount at line 4443, is rendered again when the offset differs
SelectTocOffset ==
    /\ votePc = "tocItems"
    /\ LET selected == SelectOffset(offsetCounts, tocPageCount)
       IN  /\ computedOffset' = selected
           /\ tocShown' = IF selected # tocPageCount
                          THEN renderToc(tocItems, selected, TRUE)
                          ELSE renderToc(tocItems, tocPageCount, TRUE)
    /\ votePc' = IF hasFootnotes THEN "footnoteRefs" ELSE "done"
    /\ UNCHANGED <<hasFootnotes, tocPageCount, tocItems, offsetCounts, probedRefs,
                   footnoteOffsetCounts, computedFootnoteOffset,
                   planVars, scanVars, layVars, sizeVars, lateVars>>

\* lines 4485-4492 on the next reference
TallyFootnoteRef(reading) ==
    /\ votePc = "footnoteRefs"
    /\ Len(tocItems) + Len(probedRefs) < MaxAnchors
    /\ probedRefs' = Append(probedRefs, reading)
    /\ footnoteOffsetCounts' = TallyReading(footnoteOffsetCounts, reading)
    /\ UNCHANGED <<hasFootnotes, tocPageCount, tocItems, offsetCounts, computedOffset,
                   tocShown, computedFootnoteOffset, votePc,
                   planVars, scanVars, layVars, sizeVars, lateVars>>

\* lines 4494-4501: the offset of the footnote plan
SelectFootnoteOffset ==
    /\ votePc = "footnoteRefs"
    /\ computedFootnoteOffset' = SelectOffset(footnoteOffsetCounts, computedOffset)
    /\ votePc' = "done"
    /\ UNCHANGED <<hasFootnotes, tocPageCount, tocItems, offsetCounts, computedOffset,
                   tocShown, probedRefs, footnoteOffsetCounts,
                   planVars, scanVars, layVars, sizeVars, lateVars>>

InitVote == PlanIdle /\ ScanIdle /\ LayIdle /\ VoteInit /\ SizeIdle /\ LateIdle

NextVote ==
    \/ \E reading \in MarkerReadings : TallyTocItem(reading)
    \/ SelectTocOffset
    \/ \E reading \in MarkerReadings : TallyFootnoteRef(reading)
    \/ SelectFootnoteOffset

SpecVote == InitVote /\ [][NextVote]_vars

----------------------------------------------------------------------------
(* Vocabulary of the vote properties *)

Voters(readings) ==
    {i \in 1..Len(readings) : readings[i].page # NoPage /\ readings[i].probePage # NoPage}

DeltaOf(reading) == reading.probePage - reading.page

DeltasOf(readings) == {DeltaOf(readings[i]) : i \in Voters(readings)}

Occurrences(readings, delta) ==
    Cardinality({i \in Voters(readings) : DeltaOf(readings[i]) = delta})

\* delta has strictly more occurrences than every other delta
StrictWinner(readings, delta) ==
    /\ delta \in DeltasOf(readings)
    /\ \A other \in DeltasOf(readings) \ {delta} :
        Occurrences(readings, delta) > Occurrences(readings, other)

\* delta is one of two or more deltas with the highest number of occurrences
TiedWinner(readings, delta) ==
    /\ delta \in DeltasOf(readings)
    /\ \A other \in DeltasOf(readings) :
        Occurrences(readings, delta) >= Occurrences(readings, other)
    /\ \E other \in DeltasOf(readings) \ {delta} :
        Occurrences(readings, delta) = Occurrences(readings, other)

TocOffsetSelected == votePc \in {"footnoteRefs", "done"}

FootnoteOffsetSelected == votePc = "done" /\ hasFootnotes

----------------------------------------------------------------------------
(* C15: when one delta has strictly more occurrences than every other     *)
(* delta of the headings resolved in both renders, it is the offset of    *)
(* the table of contents; the same holds of the references and the offset *)
(* of the footnote plan.                                                  *)

C15_StrictWinnerSelected ==
    /\ TocOffsetSelected =>
        \A delta \in DeltasOf(tocItems) :
            StrictWinner(tocItems, delta) => computedOffset = delta
    /\ FootnoteOffsetSelected =>
        \A delta \in DeltasOf(probedRefs) :
            StrictWinner(probedRefs, delta) => computedFootnoteOffset = delta

\* the outlier is tallied first and the winner is not the page count of the
\* table of contents; the reference votes for another offset than the headings
C15_Witness ==
    /\ votePc = "done"
    /\ tocPageCount = 1
    /\ tocItems = <<Reading(1, 4), Reading(1, 3), Reading(2, 4)>>
    /\ computedOffset = 2
    /\ probedRefs = <<Reading(1, 4)>>
    /\ computedFootnoteOffset = 3

----------------------------------------------------------------------------
(* C16: when two or more deltas tie for the highest number of occurrences *)
(* and one of them is the page count of the table of contents, the        *)
(* selected offset is that page count, for the headings and for the       *)
(* references.                                                            *)

C16_TiePrefersFrontMatter ==
    /\ (TocOffsetSelected /\ TiedWinner(tocItems, tocPageCount))
          => computedOffset = tocPageCount
    /\ (FootnoteOffsetSelected /\ TiedWinner(probedRefs, tocPageCount))
          => computedFootnoteOffset = tocPageCount

----------------------------------------------------------------------------
(* C17: once the offset is selected, the table of contents shows for      *)
(* every heading resolved in the content render its content page plus the *)
(* selected offset, and no number for a heading that was not resolved.    *)
(* The selected offset is the page count of the table of contents when no *)
(* heading is resolved in both renders, and else the delta that reached   *)
(* the highest count first in tally order.                                *)

----------------------------------------------------------------------------
(* The footer sizing of savePdf (lines 4059-4123); a position of savePdf  *)
(* is the number of the line that runs next.                              *)

footnoteMinAreaMm == 25

pageNumberBandMm == 6

\* measured heights are counted in units of 0.25 mm
QuartersPerMm == 4

\* the 0.25 mm of line 4093
ToleranceQuarters == 1

\* heights estimateFootnoteAreaMmInBrowser can return: nothing, heights
\* around the 25 mm reserved at first and around the 31 mm reserved after
\* a requirement of 30 mm
RequiredHeights == {0, 100, 101, 102, 120, 121, 125, 128}

\* the calls of renderContentPdfWithTableBreaks before and after the expansion
RenderLinesBefore == {"4059", "4075", "4079"}

RenderLinesAfter == {"4099", "4103", "4107"}

\* the calls of computeFootnotePlan and applyFootnoteRefUpdates
ComputeLinesBefore == {"4072", "4076", "4080"}

ComputeLinesAfter == {"4100", "4104", "4108"}

EstimateLines == {"4083", "4111"}

\* the plan is not computed after the last render of the expanded branch
AfterRender_SkipLastCompute(pc) ==
    CASE pc = "4059" -> IF hasFootnotes THEN "4072" ELSE "4123"
      [] pc = "4075" -> "4076"
      [] pc = "4079" -> "4080"
      [] pc = "4099" -> "4100"
      [] pc = "4103" -> "4104"
      [] pc = "4107" -> "4111"

AfterRender(pc) ==
    CASE pc = "4059" -> IF hasFootnotes THEN "4072" ELSE "4123"
      [] pc = "4075" -> "4076"
      [] pc = "4079" -> "4080"
      [] pc = "4099" -> "4100"
      [] pc = "4103" -> "4104"
      [] pc = "4107" -> "4108"

\* the expanded branch ends after its first cycle
AfterCompute_OneCycle(pc) ==
    CASE pc = "4072" -> "4075"
      [] pc = "4076" -> "4079"
      [] pc = "4080" -> "4083"
      [] pc = "4100" -> "4111"
      [] pc = "4104" -> "4107"
      [] pc = "4108" -> "4111"

AfterCompute(pc) ==
    CASE pc = "4072" -> "4075"
      [] pc = "4076" -> "4079"
      [] pc = "4080" -> "4083"
      [] pc = "4100" -> "4103"
      [] pc = "4104" -> "4107"
      [] pc = "4108" -> "4111"

\* the second estimate is checked like the first
AfterEstimate_CheckAgain(pc) == "4093"

AfterEstimate(pc) == IF pc = "4083" THEN "4093" ELSE "4123"

\* the requirement is compared with the reserved height alone
Overflow_NoTolerance(required, areaMm) == required > areaMm * QuartersPerMm

\* estimated.maxRequiredMm > footnoteAreaMm + 0.25 (line 4093)
Overflow(required, areaMm) == required > areaMm * QuartersPerMm + ToleranceQuarters

\* Math.ceil(estimated.maxRequiredMm + 1) (line 4094)
ExpandedAreaMm(required) ==
    (required + QuartersPerMm + (QuartersPerMm - 1)) \div QuartersPerMm

SizeInit ==
    /\ footnoteAreaMm = footnoteMinAreaMm
    /\ bottomMarginMm = footnoteMinAreaMm + pageNumberBandMm
    /\ pageMarginMm = footnoteMinAreaMm + pageNumberBandMm
    /\ estimated = 0
    /\ contentRenders = 0
    /\ pagePdfCalls = 0
    /\ renderMarginMm = 0
    /\ planComputes = 0
    /\ planRender = 0
    /\ tocRender = 0
    /\ expansions = 0
    /\ consoleLevels = <<>>
    /\ sizePc = "4059"

\* renderContentPdfWithTableBreaks (lines 3905-4057): the content document
\* is rendered, and rendered again when a table got a forced break
RenderContent(tablesToBreak) ==
    /\ sizePc \in RenderLinesBefore \cup RenderLinesAfter
    /\ contentRenders' = contentRenders + 1
    /\ pagePdfCalls' = pagePdfCalls + (IF tablesToBreak THEN 2 ELSE 1)
    /\ renderMarginMm' = bottomMarginMm
    /\ sizePc' = AfterRender(sizePc)
    /\ UNCHANGED <<footnoteAreaMm, bottomMarginMm, pageMarginMm, estimated, planComputes,
                   planRender, tocRender, expansions, consoleLevels,
                   planVars, scanVars, layVars, voteVars, lateVars>>

\* activeFootnotePlan = await computeFootnotePlan();
\* await applyFootnoteRefUpdates(activeFootnotePlan.refUpdates)
ComputePlan ==
    /\ sizePc \in ComputeLinesBefore \cup ComputeLinesAfter
    /\ planComputes' = planComputes + 1
    /\ planRender' = contentRenders
    /\ sizePc' = AfterCompute(sizePc)
    /\ UNCHANGED <<footnoteAreaMm, bottomMarginMm, pageMarginMm, estimated, contentRenders,
                   pagePdfCalls, renderMarginMm, tocRender, expansions, consoleLevels,
                   planVars, scanVars, layVars, voteVars, lateVars>>

\* estimated = await estimateFootnoteAreaMmInBrowser(...) (lines 4083, 4111)
Estimate(required) ==
    /\ sizePc \in EstimateLines
    /\ estimated' = required
    /\ sizePc' = AfterEstimate(sizePc)
    /\ UNCHANGED <<footnoteAreaMm, bottomMarginMm, pageMarginMm, contentRenders,
                   pagePdfCalls, renderMarginMm, planComputes, planRender, tocRender,
                   expansions, consoleLevels, planVars, scanVars, layVars, voteVars, lateVars>>

\* lines 4093-4097: the footer is expanded (applyPdfMarginState, lines
\* 1819-1836, setDynamicPageMargins) or the block ends
CheckOverflow ==
    /\ sizePc = "4093"
    /\ IF Overflow(estimated, footnoteAreaMm)
       THEN /\ footnoteAreaMm' = ExpandedAreaMm(estimated)
            /\ bottomMarginMm' = ExpandedAreaMm(estimated) + pageNumberBandMm
            /\ pageMarginMm' = ExpandedAreaMm(estimated) + pageNumberBandMm
            /\ expansions' = expansions + 1
            /\ consoleLevels' = Append(consoleLevels, "log")
            /\ sizePc' = "4099"
       ELSE /\ sizePc' = "4123"
            /\ UNCHANGED <<footnoteAreaMm, bottomMarginMm, pageMarginMm, expansions,
                           consoleLevels>>
    /\ UNCHANGED <<estimated, contentRenders, pagePdfCalls, renderMarginMm, planComputes,
                   planRender, tocRender, planVars, scanVars, layVars, voteVars, lateVars>>

\* line 4123: the heading markers are resolved and the table of contents
\* and the offsets are processed
ResolveTocMarkers ==
    /\ sizePc = "4123"
    /\ tocRender' = contentRenders
    /\ sizePc' = "toc"
    /\ UNCHANGED <<footnoteAreaMm, bottomMarginMm, pageMarginMm, estimated, contentRenders,
                   pagePdfCalls, renderMarginMm, planComputes, planRender, expansions,
                   consoleLevels,
                   planVars, scanVars, layVars, voteVars, lateVars>>

InitSizing ==
    /\ PlanIdle /\ ScanIdle /\ LayIdle /\ hasFootnotes \in BOOLEAN /\ VoteAtRest /\ SizeInit
    /\ LateIdle

NextSizing ==
    \/ \E tablesToBreak \in BOOLEAN : RenderContent(tablesToBreak)
    \/ ComputePlan
    \/ \E required \in RequiredHeights : Estimate(required)
    \/ CheckOverflow
    \/ ResolveTocMarkers

SpecSizing == InitSizing /\ [][NextSizing]_vars

\* every awaited call returns: savePdf runs on while a step is left
SpecSizingFair == SpecSizing /\ WF_vars(NextSizing)

----------------------------------------------------------------------------
(* Vocabulary of the sizing properties *)

SizingOver == sizePc \in {"4123", "toc"}

\* the reserved height is the least whole number of mm that holds the
\* requirement and one mm of slack
IsCeilOfRequiredPlusOne(areaMm, required) ==
    /\ areaMm * QuartersPerMm >= required + QuartersPerMm
    /\ (areaMm - 1) * QuartersPerMm < required + QuartersPerMm

CyclesBefore == Cardinality(ComputeLinesBefore)

CyclesAfter == Cardinality(ComputeLinesAfter)

----------------------------------------------------------------------------
(* C18: at the check of the estimate, a requirement above the reserved    *)
(* height by more than 0.25 mm makes the reserved height ceil(R + 1) mm,  *)
(* a whole number not below R, and the bottom margin the reserved height  *)
(* plus the 6 mm band; any other requirement leaves both as they are and  *)
(* goes to the table of contents without another content render.          *)

C18_SizingStep ==
    [][sizePc = "4093" =>
        IF estimated > footnoteAreaMm * QuartersPerMm + 1
        THEN /\ IsCeilOfRequiredPlusOne(footnoteAreaMm', estimated)
             /\ footnoteAreaMm' * QuartersPerMm >= estimated
             /\ bottomMarginMm' = footnoteAreaMm' + 6
             /\ pageMarginMm' = bottomMarginMm'
        ELSE /\ footnoteAreaMm' = footnoteAreaMm
             /\ bottomMarginMm' = bottomMarginMm
             /\ pageMarginMm' = pageMarginMm
             /\ contentRenders' = contentRenders
             /\ sizePc' = "4123"]_vars

\* 30 mm required with 25 mm reserved: 31 mm reserved, 37 mm of margin
C18_Witness ==
    /\ sizePc = "4099"
    /\ estimated = 120
    /\ footnoteAreaMm = 31
    /\ bottomMarginMm = 37

\* 25.25 mm required with 25 mm reserved: nothing changes
C18_WitnessWithinTolerance ==
    /\ sizePc = "4123"
    /\ estimated = 101
    /\ footnoteAreaMm = 25
    /\ bottomMarginMm = 31
    /\ contentRenders = Cardinality(RenderLinesBefore)

----------------------------------------------------------------------------
(* C19: the footer is expanded at most once; the plan is computed three   *)
(* times before the check of the estimate and three more times exactly    *)
(* when the footer was expanded; savePdf then reaches the table of        *)
(* contents, whatever the second estimate is.                             *)

C19_BoundedSizing ==
    /\ [](/\ expansions <= 1
          /\ planComputes <= CyclesBefore + CyclesAfter
          /\ sizePc = "4093" => planComputes = CyclesBefore
          /\ SizingOver =>
               planComputes = IF ~hasFootnotes THEN 0
                              ELSE IF expansions = 1 THEN CyclesBefore + CyclesAfter
                              ELSE CyclesBefore)
    /\ <>(sizePc = "toc")

\* the second estimate is above the expanded height and savePdf goes on
C19_Witness ==
    /\ sizePc = "toc"
    /\ expansions = 1
    /\ planComputes = 6
    /\ Overflow(estimated, footnoteAreaMm)

----------------------------------------------------------------------------
(* C20: when the footer was expanded, the content document is rendered    *)
(* three more times, each render followed by a computation of the plan,   *)
(* before the sizing ends; the active plan is resolved from the last of   *)
(* these renders.                                                         *)

C20_ThreeCyclesAfterExpansion ==
    (SizingOver /\ expansions = 1) =>
        /\ contentRenders = Cardinality(RenderLinesBefore) + Cardinality(RenderLinesAfter)
        /\ planComputes = CyclesBefore + CyclesAfter
        /\ planRender = contentRenders
        /\ renderMarginMm = bottomMarginMm

C20_Witness ==
    /\ sizePc = "toc"
    /\ expansions = 1
    /\ contentRenders = 6
    /\ pagePdfCalls = 8

\* C20 as stated: one content render follows the expansion
C20_OneCycleAfterExpansion ==
    (SizingOver /\ expansions = 1) =>
        contentRenders = Cardinality(RenderLinesBefore) + 1

----------------------------------------------------------------------------
(* C21: when the estimate made after the expansion still exceeds the      *)
(* reserved height, savePdf goes on to the table of contents with the     *)
(* plan and the margin it has, and a line of level warn or error tells    *)
(* that the sizing did not converge.                                      *)

NotConverged == SizingOver /\ expansions = 1 /\ Overflow(estimated, footnoteAreaMm)

C21_NotConvergedWarns ==
    NotConverged => \E i \in 1..Len(consoleLevels) : consoleLevels[i] \in {"warn", "error"}

----------------------------------------------------------------------------
(* C22: when the sizing is over, the active footnote plan is resolved     *)
(* from the last content render and that render was made with the bottom  *)
(* margin in force; the heading pages of the table of contents are        *)
(* resolved from the same render. No plan computed before the expansion   *)
(* is the active one after it.                                            *)

C22_ResolvedAfterLastMarginChange ==
    /\ SizingOver =>
        /\ renderMarginMm = bottomMarginMm
        /\ pageMarginMm = bottomMarginMm
        /\ hasFootnotes => planRender = contentRenders
        /\ (hasFootnotes /\ expansions = 1) => planRender > Cardinality(RenderLinesBefore)
    /\ sizePc = "toc" => tocRender = contentRenders

\* the footer was expanded and the table of contents is reached
C22_Witness ==
    /\ sizePc = "toc"
    /\ expansions = 1
    /\ bottomMarginMm = 37
    /\ renderMarginMm = 37
    /\ planRender = 6
    /\ tocRender = 6

\* ---------------------------------------------------------------------------
\* resolveFootnoteLinkSpec: classification of a footnote link's href
\* ---------------------------------------------------------------------------

MaxHrefLen == 4

Quote == "\""
LoneSurrogate == "\\uD800"

HrefAlphabet == {"a", "2", " ", "%", "#", "/", ":", LoneSurrogate}

Hrefs == UNION {[1..n -> HrefAlphabet] : n \in 0..MaxHrefLen}

KnownDestinationSets ==
    { {},
      {<<"a">>, <<Quote>>, <<"a", "%", "2", "0", "a">>},
      {<<"%", "2", "2">>, <<Quote>>} }

Returned(value) == [threw |-> FALSE, value |-> value]
URIError == [threw |-> TRUE, value |-> <<>>]

\* the character a %XX escape stands for; escapes of a byte that is not a
\* complete UTF-8 sequence (%a2, %aa) and malformed escapes have none
EscapedChar(hi, lo) ==
    CASE hi = "2" /\ lo = "2" -> Quote
      [] hi = "2" /\ lo = "a" -> "*"
      [] OTHER -> ""

RECURSIVE decodeURIComponent(_)
decodeURIComponent(value) ==
    IF value = <<>> THEN Returned(<<>>)
    ELSE IF Head(value) = "%"
         THEN IF Len(value) >= 3 /\ EscapedChar(value[2], value[3]) # ""
              THEN LET rest == decodeURIComponent(SubSeq(value, 4, Len(value)))
                   IN  IF rest.threw THEN URIError
                       ELSE Returned(<<EscapedChar(value[2], value[3])>> \o rest.value)
              ELSE URIError
         ELSE LET rest == decodeURIComponent(Tail(value))
              IN  IF rest.threw THEN URIError
                  ELSE Returned(<<Head(value)>> \o rest.value)

safeDecodeURIComponent(value) ==
    LET decoded == decodeURIComponent(value)
    IN  IF decoded.threw THEN value ELSE decoded.value

UriUnreserved == {"a", "2", "0", "*"}

PercentEscape(c) ==
    CASE c = " " -> <<"%", "2", "0">>
      [] c = Quote -> <<"%", "2", "2">>
      [] c = "#" -> <<"%", "2", "3">>
      [] c = "%" -> <<"%", "2", "5">>
      [] c = "/" -> <<"%", "2", "F">>
      [] c = ":" -> <<"%", "3", "A">>

RECURSIVE encodeURIComponent(_)
encodeURIComponent(value) ==
    IF value = <<>> THEN Returned(<<>>)
    ELSE IF Head(value) = LoneSurrogate THEN URIError
    ELSE LET rest == encodeURIComponent(Tail(value))
         IN  IF rest.threw THEN URIError
             ELSE IF Head(value) \in UriUnreserved
                  THEN Returned(<<Head(value)>> \o rest.value)
                  ELSE Returned(PercentEscape(Head(value)) \o rest.value)

SchemeStart == {"a"}
SchemeChars == {"a", "2"}

\* /^[a-z][a-z0-9+.-]*:/i
hasScheme(raw) ==
    \E n \in 2..Len(raw) :
        /\ raw[n] = ":"
        /\ raw[1] \in SchemeStart
        /\ \A i \in 2..(n - 1) : raw[i] \in SchemeChars

RECURSIVE Unique(_)
Unique(seq) ==
    IF seq = <<>> THEN <<>>
    ELSE LET front == Unique(SubSeq(seq, 1, Len(seq) - 1))
             last == seq[Len(seq)]
         IN  IF \E i \in 1..Len(front) : front[i] = last THEN front ELSE Append(front, last)

NonEmptyText(value) == value # <<>>

FirstKnown(candidates, existingDestinationNames) ==
    LET hits == {i \in 1..Len(candidates) : candidates[i] \in existingDestinationNames}
    IN  IF hits # {} THEN candidates[MinOf(hits)]
        ELSE IF candidates # <<>> THEN candidates[1]
        ELSE <<>>

NullLink == [type |-> "null"]
ThrownLink == [type |-> "throws"]
InternalLink(destName) == [type |-> "internal", destName |-> destName]
ExternalLink(href) == [type |-> "external", href |-> href]

resolveFootnoteLinkSpec(href, existingDestinationNames) ==
    LET raw == Trim(href)
    IN  IF raw = <<>> THEN NullLink
        ELSE IF Head(raw) = "#"
        THEN LET rawHash == Tail(raw)
                 decoded == safeDecodeURIComponent(rawHash)
                 encodedDecoded == encodeURIComponent(decoded)
             IN  IF rawHash = <<>> THEN NullLink
                 ELSE IF encodedDecoded.threw THEN ThrownLink
                 ELSE LET candidates == SelectSeq(<<Trim(rawHash), Trim(decoded),
                                                    Trim(encodedDecoded.value)>>, NonEmptyText)
                          preferred == FirstKnown(Unique(candidates), existingDestinationNames)
                      IN  IF preferred # <<>> THEN InternalLink(preferred) ELSE NullLink
        ELSE IF hasScheme(raw) \/ Head(raw) = "/" THEN ExternalLink(raw)
        ELSE NullLink

LinkInit ==
    /\ linkHref \in Hrefs
    /\ linkKnown \in KnownDestinationSets
    /\ linkResult = [type |-> "none"]
    /\ linkPc = "call"

ResolveLink ==
    /\ linkPc = "call"
    /\ linkResult' = resolveFootnoteLinkSpec(linkHref, linkKnown)
    /\ linkPc' = "done"
    /\ UNCHANGED <<linkHref, linkKnown, earlyVars, injVars, asmVars, syncVars>>

EarlyIdle == PlanIdle /\ ScanIdle /\ LayIdle /\ VoteIdle /\ SizeIdle

InitLink == EarlyIdle /\ LinkInit /\ InjIdle /\ AsmIdle /\ SyncIdle

NextLink == ResolveLink

SpecLink == InitLink /\ [][NextLink]_vars

\* the candidates the specification lists for '#h': raw h, decoded h and,
\* where it can be formed, re-encoded h
ListedCandidates(h) ==
    LET decoded == safeDecodeURIComponent(h)
        encoded == encodeURIComponent(decoded)
    IN  IF encoded.threw THEN <<h, decoded>> ELSE <<h, decoded, encoded.value>>

\* C25: resolveFootnoteLinkSpec never throws; an href with a URI scheme or a
\* leading '/' yields an external link with the href unchanged; an href '#h'
\* with non-empty h yields an internal link to the first of (raw h, decoded h,
\* re-encoded h) that is a known destination, or to raw h when none is known.
C25_NeverThrowsAndClassifies ==
    linkPc = "done" =>
        /\ linkResult # ThrownLink
        /\ (linkHref # <<>> /\ (hasScheme(linkHref) \/ Head(linkHref) = "/"))
               => linkResult = ExternalLink(linkHref)
        /\ (Len(linkHref) > 1 /\ Head(linkHref) = "#")
               => linkResult = InternalLink(FirstKnown(ListedCandidates(Tail(linkHref)), linkKnown))

\* ---------------------------------------------------------------------------
\* injectFootnotesOverlayIntoPdf and injectFootnotesIntoPdf: the footnotes
\* are put into the document the final render wrote
\* ---------------------------------------------------------------------------

MaxBasePages == 2

HeadingDest == <<"h">>

FootnoteHrefs == {NoHref, <<"/", "a">>, <<"#", "a">>}

\* a link annotation: to a named destination or to a URI
LinkTo(destName) == [dest |-> destName, uri |-> <<>>]
UriLink(href) == [dest |-> <<>>, uri |-> href]

FootnoteItem(destName, href) == [destName |-> destName, href |-> href]
PagePlanOf(finalPage, items) == [finalPage |-> finalPage, items |-> items]

\* one page plan with one footnote for every planned page, in page order
RECURSIVE PlansFor(_, _)
PlansFor(plannedPages, href) ==
    IF plannedPages = {} THEN <<>>
    ELSE LET p == MinOf(plannedPages)
         IN  <<PagePlanOf(p, <<FootnoteItem(MakeDestName(p, <<"a">>), href)>>)>>
                 \o PlansFor(plannedPages \ {p}, href)

PlanSets(n) == {PlansFor(S, href) : S \in SUBSET (1..(n + 1)), href \in FootnoteHrefs}

\* byPage.get(pageNumber): the items of the last plan of that page
byPageGet(plans, pageNumber) ==
    LET hits == {i \in 1..Len(plans) : plans[i].finalPage = pageNumber}
    IN  IF hits = {} THEN <<>> ELSE plans[MaxOf(hits)].items

ItemDestNames(plans) ==
    UNION {{plans[i].items[j].destName : j \in 1..Len(plans[i].items)} : i \in 1..Len(plans)}

\* the links applyFootnoteRefUpdates left on the references of a page
RefLinksOn(plans, p) ==
    LET items == byPageGet(plans, p)
    IN  [j \in 1..Len(items) |-> LinkTo(items[j].destName)]

BasePage(annots) == [drawn |-> <<"content">>, hasAnnots |-> annots # <<>>, annots |-> annots]

\* the document of the final render: a TOC link to a heading where the
\* document has a TOC, the reference links, and the destinations the
\* renderer emitted for the heading and for the placeholder anchors
BaseDocument(n, plans, withToc, withPlaceholders) ==
    LET tocNames == IF withToc THEN {HeadingDest} ELSE {}
        placeholderNames == IF withPlaceholders THEN ItemDestNames(plans) ELSE {}
        names == tocNames \cup placeholderNames
    IN  [pages |-> [p \in 1..n |->
                      BasePage((IF withToc /\ p = 1 THEN <<LinkTo(HeadingDest)>> ELSE <<>>)
                                   \o RefLinksOn(plans, p))],
         hasDests |-> names # {},
         dests |-> [name \in names |->
                      IF name \in tocNames THEN [page |-> n, kind |-> "content"]
                      ELSE [page |-> 1, kind |-> "content"]]]

\* the dictionary is made anew although the catalog holds one
ensurePdfDestinationsDict_Fresh(pdfDoc) ==
    [pdfDoc EXCEPT !.hasDests = TRUE, !.dests = EmptyMap]

ensurePdfDestinationsDict(pdfDoc) ==
    IF pdfDoc.hasDests THEN pdfDoc
    ELSE [pdfDoc EXCEPT !.hasDests = TRUE, !.dests = EmptyMap]

setPdfNamedDestination(pdfDoc, destinationName, pageNumber) ==
    IF Trim(destinationName) = <<>> THEN pdfDoc
    ELSE [pdfDoc EXCEPT !.dests = MapSet(pdfDoc.dests, destinationName,
                                         [page |-> pageNumber, kind |-> "footnote"])]

ensurePdfPageAnnotationsArray(page) ==
    IF page.hasAnnots THEN page
    ELSE [page EXCEPT !.hasAnnots = TRUE, !.annots = <<>>]

HasLinkHref(item) == Trim(item.href) # <<>>

OverlayLink(item) ==
    LET href == Trim(item.href)
    IN  IF Head(href) = "#" THEN LinkTo(Tail(href)) ELSE UriLink(href)

\* the page of the overlay document made from section pageNumber
OverlayPage(plans, pageNumber) ==
    LET items == byPageGet(plans, pageNumber)
        linked == SelectSeq(items, HasLinkHref)
    IN  [hasBox |-> items # <<>>,
         annots |-> [j \in 1..Len(linked) |-> OverlayLink(linked[j])]]

\* the .footnote-anchor elements of sections 1..totalPages, in document order
RECURSIVE OverlayAnchors(_, _)
OverlayAnchors(plans, totalPages) ==
    IF totalPages = 0 THEN <<>>
    ELSE LET items == byPageGet(plans, totalPages)
         IN  OverlayAnchors(plans, totalPages - 1)
                 \o [j \in 1..Len(items) |->
                        [destName |-> items[j].destName, pageNumber |-> totalPages]]

DrawOverlayPage(page, overlayPage) ==
    [page EXCEPT !.drawn = Append(@, IF overlayPage.hasBox THEN "overlay-footnotes"
                                     ELSE "overlay-empty")]

\* the annotation array of the base page is fetched before the overlay page
\* is looked at
CopyOverlayAnnots_Always(page, overlayPage) ==
    LET ensured == ensurePdfPageAnnotationsArray(page)
    IN  [ensured EXCEPT !.annots = @ \o overlayPage.annots]

CopyOverlayAnnots(page, overlayPage) ==
    IF overlayPage.annots # <<>>
    THEN LET ensured == ensurePdfPageAnnotationsArray(page)
         IN  [ensured EXCEPT !.annots = @ \o overlayPage.annots]
    ELSE page

\* the forEach over overlayDestinationCoordinates
RECURSIVE SetOverlayDestinations(_, _, _)
SetOverlayDestinations(pdfDoc, anchors, seenDestinationNames) ==
    IF anchors = <<>> THEN pdfDoc
    ELSE LET dest == Head(anchors)
             pageIndex == dest.pageNumber - 1
         IN  IF \/ ~IsPrefixOf(DestPrefix, dest.destName)
                \/ dest.destName \in seenDestinationNames
                \/ pageIndex < 0
                \/ pageIndex >= Len(pdfDoc.pages)
             THEN SetOverlayDestinations(pdfDoc, Tail(anchors), seenDestinationNames)
             ELSE SetOverlayDestinations(
                      setPdfNamedDestination(pdfDoc, dest.destName, dest.pageNumber),
                      Tail(anchors), seenDestinationNames \cup {dest.destName})

addPdfLinkAnnotation(page, linkSpec) ==
    IF linkSpec.type = "external"
    THEN LET ensured == ensurePdfPageAnnotationsArray(page)
         IN  [ensured EXCEPT !.annots = Append(@, UriLink(linkSpec.href))]
    ELSE IF linkSpec.type = "internal"
    THEN LET ensured == ensurePdfPageAnnotationsArray(page)
         IN  [ensured EXCEPT !.annots = Append(@, LinkTo(linkSpec.destName))]
    ELSE page

\* the forEach over layout.itemLayouts; existingDestinationNames holds the
\* keys read at the start and every name set since, which are the keys of
\* the dictionary at that moment
RECURSIVE DrawItems(_, _, _)
DrawItems(pdfDoc, pageNumber, items) ==
    IF items = <<>> THEN pdfDoc
    ELSE LET item == Head(items)
             named == setPdfNamedDestination(pdfDoc, item.destName, pageNumber)
             existingDestinationNames == DOMAIN named.dests
             drawn == [named.pages[pageNumber] EXCEPT !.drawn = Append(@, "footnote-text")]
             linkSpec == IF HasLinkHref(item)
                         THEN resolveFootnoteLinkSpec(item.href, existingDestinationNames)
                         ELSE NullLink
             linked == addPdfLinkAnnotation(drawn, linkSpec)
         IN  DrawItems([named EXCEPT !.pages[pageNumber] = linked], pageNumber, Tail(items))

\* the body of finalFootnotePlans.forEach in injectFootnotesIntoPdf
DrawPagePlan(pdfDoc, pagePlan) ==
    LET pageIndex == pagePlan.finalPage - 1
    IN  IF pageIndex < 0 \/ pageIndex >= Len(pdfDoc.pages) THEN pdfDoc
        ELSE IF pagePlan.items = <<>> THEN pdfDoc
        ELSE DrawItems([pdfDoc EXCEPT !.pages[pagePlan.finalPage].drawn = Append(@, "footnote-line")],
                       pagePlan.finalPage, pagePlan.items)

pagesToMerge == MinOf({Len(basePdfDoc.pages), overlayPageCount})

InjInit ==
    /\ injPath \in {"overlay", "direct"}
    /\ \E n \in 1..MaxBasePages, withToc \in BOOLEAN, withPlaceholders \in BOOLEAN :
         \E plans \in PlanSets(n) :
            /\ finalFootnotePlans = plans
            /\ basePdfBytes = BaseDocument(n, plans, withToc, withPlaceholders)
    /\ basePdfDoc = NoDoc
    /\ overlayPageCount = 0
    /\ overlayDestinationCoordinates = <<>>
    /\ injIndex = 0
    /\ injPc = "start"

\* the early return on an empty plan list, else PDFDocument.load
LoadBase ==
    /\ injPc = "start"
    /\ IF finalFootnotePlans = <<>>
       THEN /\ injPc' = "returned"
            /\ UNCHANGED <<basePdfDoc, injIndex>>
       ELSE /\ basePdfDoc' = IF injPath = "direct" THEN ensurePdfDestinationsDict(basePdfBytes)
                             ELSE basePdfBytes
            /\ injIndex' = 1
            /\ injPc' = IF injPath = "overlay" THEN "render" ELSE "direct"
    /\ UNCHANGED <<injPath, finalFootnotePlans, basePdfBytes, overlayPageCount,
                   overlayDestinationCoordinates, earlyVars, linkVars, asmVars, syncVars>>

\* the overlay page is rendered: its anchors are read and its document loaded
RenderOverlay(pageCount) ==
    /\ injPc = "render"
    /\ overlayDestinationCoordinates' = OverlayAnchors(finalFootnotePlans, Len(basePdfDoc.pages))
    /\ overlayPageCount' = pageCount
    /\ injPc' = "merge"
    /\ UNCHANGED <<injPath, finalFootnotePlans, basePdfBytes, basePdfDoc, injIndex,
                   earlyVars, linkVars, asmVars, syncVars>>

\* one turn of the loop over pageIndex
MergePage ==
    /\ injPc = "merge"
    /\ injIndex <= pagesToMerge
    /\ LET overlayPage == OverlayPage(finalFootnotePlans, injIndex)
           drawn == DrawOverlayPage(basePdfDoc.pages[injIndex], overlayPage)
       IN  basePdfDoc' = [basePdfDoc EXCEPT !.pages[injIndex] = CopyOverlayAnnots(drawn, overlayPage)]
    /\ injIndex' = injIndex + 1
    /\ UNCHANGED <<injPath, finalFootnotePlans, basePdfBytes, overlayPageCount,
                   overlayDestinationCoordinates, injPc, earlyVars, linkVars, asmVars, syncVars>>

\* after the loop: the destinations are set and the document is saved
SetDestinations ==
    /\ injPc = "merge"
    /\ injIndex > pagesToMerge
    /\ basePdfDoc' = SetOverlayDestinations(ensurePdfDestinationsDict(basePdfDoc),
                                            overlayDestinationCoordinates, {})
    /\ injPc' = "done"
    /\ UNCHANGED <<injPath, finalFootnotePlans, basePdfBytes, overlayPageCount,
                   overlayDestinationCoordinates, injIndex, earlyVars, linkVars, asmVars, syncVars>>

\* one turn of finalFootnotePlans.forEach
DirectPlan ==
    /\ injPc = "direct"
    /\ injIndex <= Len(finalFootnotePlans)
    /\ basePdfDoc' = DrawPagePlan(basePdfDoc, finalFootnotePlans[injIndex])
    /\ injIndex' = injIndex + 1
    /\ UNCHANGED <<injPath, finalFootnotePlans, basePdfBytes, overlayPageCount,
                   overlayDestinationCoordinates, injPc, earlyVars, linkVars, asmVars, syncVars>>

DirectSave ==
    /\ injPc = "direct"
    /\ injIndex > Len(finalFootnotePlans)
    /\ injPc' = "done"
    /\ UNCHANGED <<injPath, finalFootnotePlans, basePdfBytes, basePdfDoc, overlayPageCount,
                   overlayDestinationCoordinates, injIndex, earlyVars, linkVars, asmVars, syncVars>>

InitInject == EarlyIdle /\ LinkIdle /\ InjInit /\ AsmIdle /\ SyncIdle

NextInject ==
    \/ LoadBase
    \/ \E pageCount \in {Len(basePdfDoc.pages), Len(basePdfDoc.pages) + 1} : RenderOverlay(pageCount)
    \/ MergePage
    \/ SetDestinations
    \/ DirectPlan
    \/ DirectSave

SpecInject == InitInject /\ [][NextInject]_vars

\* the injection ran to its end and saved the document
Injected == injPc = "done"

PlanlessPages ==
    {p \in 1..Len(basePdfBytes.pages) : byPageGet(finalFootnotePlans, p) = <<>>}

\* C23: a page of the base document without a footnote plan keeps its
\* annotation array in both injection paths; the direct path draws nothing on
\* it, the overlay path merges onto it one overlay page that holds no
\* footnote box.
C23_PlanlessPagesKeepAnnotations ==
    Injected =>
        \A p \in PlanlessPages :
            LET before == basePdfBytes.pages[p]
                after == basePdfDoc.pages[p]
            IN  /\ after.hasAnnots = before.hasAnnots
                /\ after.annots = before.annots
                /\ after.drawn = IF injPath = "overlay"
                                 THEN Append(before.drawn, "overlay-empty")
                                 ELSE before.drawn

C23_Witness ==
    /\ Injected
    /\ injPath = "overlay"
    /\ Len(finalFootnotePlans) = 1
    /\ finalFootnotePlans[1].finalPage = 1
    /\ PlanlessPages = {2}
    /\ basePdfDoc.pages[1].drawn = <<"content", "overlay-footnotes">>
    /\ basePdfDoc.pages[2] = [drawn |-> <<"content", "overlay-empty">>,
                              hasAnnots |-> FALSE, annots |-> <<>>]

C23_WitnessDirect ==
    /\ Injected
    /\ injPath = "direct"
    /\ PlanlessPages = {2}
    /\ basePdfDoc.pages[1].drawn = <<"content", "footnote-line", "footnote-text">>
    /\ basePdfDoc.pages[2] = basePdfBytes.pages[2]

\* C23 as stated: in both paths a page without a plan is left as it was
C23_PlanlessPagesUnmodified ==
    Injected => \A p \in PlanlessPages : basePdfDoc.pages[p] = basePdfBytes.pages[p]

IsPrefixSeq(a, b) == Len(a) <= Len(b) /\ SubSeq(b, 1, Len(a)) = a

\* the footnote destinations the injection set: those of the items of a page
\* of the document
PlacedDestNames ==
    UNION {{finalFootnotePlans[i].items[j].destName : j \in 1..Len(finalFootnotePlans[i].items)} :
             i \in {k \in 1..Len(finalFootnotePlans) :
                      finalFootnotePlans[k].finalPage <= Len(basePdfBytes.pages)}}

PlacedPage(name) ==
    finalFootnotePlans[MaxOf({i \in 1..Len(finalFootnotePlans) :
        /\ finalFootnotePlans[i].finalPage <= Len(basePdfBytes.pages)
        /\ \E j \in 1..Len(finalFootnotePlans[i].items) :
               finalFootnotePlans[i].items[j].destName = name})].finalPage

\* C24: the injection keeps every link annotation of the base document, in
\* place and with its target, and every named destination; a destination
\* keeps its target unless its name is the destination name of an injected
\* footnote, which is set to the footnote's page.
C24_AdditiveButForFootnoteNames ==
    Injected =>
        /\ \A p \in 1..Len(basePdfBytes.pages) :
               IsPrefixSeq(basePdfBytes.pages[p].annots, basePdfDoc.pages[p].annots)
        /\ \A name \in DOMAIN basePdfBytes.dests :
               /\ name \in DOMAIN basePdfDoc.dests
               /\ name \notin PlacedDestNames => basePdfDoc.dests[name] = basePdfBytes.dests[name]
        /\ \A name \in PlacedDestNames :
               /\ name \in DOMAIN basePdfDoc.dests
               /\ basePdfDoc.dests[name] = [page |-> PlacedPage(name), kind |-> "footnote"]

C24_Witness ==
    /\ Injected
    /\ injPath = "overlay"
    /\ Len(basePdfBytes.pages) = 2
    /\ basePdfBytes.dests = [name \in {HeadingDest, MakeDestName(2, <<"a">>)} |->
                               IF name = HeadingDest THEN [page |-> 2, kind |-> "content"]
                               ELSE [page |-> 1, kind |-> "content"]]
    /\ basePdfDoc.dests = [name \in {HeadingDest, MakeDestName(2, <<"a">>)} |->
                              IF name = HeadingDest THEN [page |-> 2, kind |-> "content"]
                              ELSE [page |-> 2, kind |-> "footnote"]]
    /\ basePdfDoc.pages[1].annots = <<LinkTo(HeadingDest)>>
    /\ basePdfDoc.pages[2].annots = <<LinkTo(MakeDestName(2, <<"a">>)), UriLink(<<"/", "a">>)>>

\* C24 as stated: every destination and annotation of the base document is
\* there afterwards with the same target
C24_NothingReplaced ==
    Injected =>
        /\ \A p \in 1..Len(basePdfBytes.pages) :
               IsPrefixSeq(basePdfBytes.pages[p].annots, basePdfDoc.pages[p].annots)
        /\ \A name \in DOMAIN basePdfBytes.dests :
               /\ name \in DOMAIN basePdfDoc.dests
               /\ basePdfDoc.dests[name] = basePdfBytes.dests[name]

\* ---------------------------------------------------------------------------
\* export and savePdf: markers, renders and the file at pdfPath
\* ---------------------------------------------------------------------------

MaxMarkers == 1

AsmDocs ==
    [headings : 0..MaxMarkers, refs : 0..MaxMarkers, hasDefinitions : BOOLEAN,
     tableRows : 0..MaxMarkers, disableTableBreaks : BOOLEAN]

\* footnoteRefs.length > 0 && footnoteDefinitionsById.size > 0
HasFootnotes(doc) == doc.refs > 0 /\ doc.hasDefinitions

\* a page.pdf call: where it writes and the markers the page holds
RenderOf(target, markers) == [target |-> target, markers |-> markers]

\* the reference markers are taken out only where the document has footnotes
FootnoteMarkersStripped_IfFootnotes(markers, doc) ==
    IF HasFootnotes(doc) THEN [markers EXCEPT !.footnote = 0] ELSE markers

FootnoteMarkersStripped(markers, doc) == [markers EXCEPT !.footnote = 0]

TocMarkersStripped(markers) == [markers EXCEPT !.toc = 0]

TableMarkersStripped(markers) == [markers EXCEPT !.table = 0]

\* the steps that render or measure
RenderSteps == {"content", "toc", "probe", "final", "inject"}

AsmInit ==
    /\ asmDoc \in AsmDocs
    /\ domMarkers = NoMarkers
    /\ renders = {}
    /\ contentRendersLeft = 0
    /\ pdfAtPath = "none"
    /\ asmOutcome = "running"
    /\ asmPc = "markers"

\* the footnote reference markers and the TOC markers are put into the page;
\* the sizing that follows renders the content once, three times, or six
\* times when the footer was expanded
InsertMarkers(expands) ==
    /\ asmPc = "markers"
    /\ expands => HasFootnotes(asmDoc)
    /\ domMarkers' = [domMarkers EXCEPT !.footnote = asmDoc.refs, !.toc = asmDoc.headings]
    /\ contentRendersLeft' = IF ~HasFootnotes(asmDoc) THEN 1 ELSE IF expands THEN 6 ELSE 3
    /\ asmPc' = "content"
    /\ UNCHANGED <<asmDoc, renders, pdfAtPath, asmOutcome, earlyVars, linkVars, injVars, syncVars>>

\* renderContentPdfWithTableBreaks
RenderContentPdf(tablesToBreak) ==
    /\ asmPc = "content"
    /\ contentRendersLeft > 0
    /\ LET tableMarkerIds == IF asmDoc.disableTableBreaks THEN 0 ELSE asmDoc.tableRows
           marked == [domMarkers EXCEPT !.table = tableMarkerIds]
           stripped == IF asmDoc.disableTableBreaks THEN marked ELSE TableMarkersStripped(marked)
       IN  /\ tablesToBreak => tableMarkerIds > 0
           /\ renders' = renders \cup {RenderOf("content", marked)}
                             \cup (IF tablesToBreak THEN {RenderOf("content", stripped)} ELSE {})
           /\ domMarkers' = stripped
    /\ contentRendersLeft' = contentRendersLeft - 1
    /\ asmPc' = IF contentRendersLeft = 1 THEN "toc" ELSE "content"
    /\ UNCHANGED <<asmDoc, pdfAtPath, asmOutcome, earlyVars, linkVars, injVars, syncVars>>

\* renderToc without numbers and the render of the TOC alone
RenderTocPdf ==
    /\ asmPc = "toc"
    /\ renders' = renders \cup {RenderOf("toc", domMarkers)}
    /\ asmPc' = "probe"
    /\ UNCHANGED <<asmDoc, domMarkers, contentRendersLeft, pdfAtPath, asmOutcome,
                   earlyVars, linkVars, injVars, syncVars>>

\* renderToc with numbers and the probe render, read back for the markers
RenderProbePdf ==
    /\ asmPc = "probe"
    /\ renders' = renders \cup {RenderOf("probe", domMarkers)}
    /\ asmPc' = "stripToc"
    /\ UNCHANGED <<asmDoc, domMarkers, contentRendersLeft, pdfAtPath, asmOutcome,
                   earlyVars, linkVars, injVars, syncVars>>

RemoveTocMarkers ==
    /\ asmPc = "stripToc"
    /\ domMarkers' = TocMarkersStripped(domMarkers)
    /\ asmPc' = "stripRefs"
    /\ UNCHANGED <<asmDoc, renders, contentRendersLeft, pdfAtPath, asmOutcome,
                   earlyVars, linkVars, injVars, syncVars>>

RemoveFootnoteMarkers ==
    /\ asmPc = "stripRefs"
    /\ domMarkers' = FootnoteMarkersStripped(domMarkers, asmDoc)
    /\ asmPc' = "final"
    /\ UNCHANGED <<asmDoc, renders, contentRendersLeft, pdfAtPath, asmOutcome,
                   earlyVars, linkVars, injVars, syncVars>>

\* page.pdf({ path: pdfPath }); the overlay follows where the plans hold a page
FinalRender(plansNonEmpty) ==
    /\ asmPc = "final"
    /\ plansNonEmpty => HasFootnotes(asmDoc)
    /\ renders' = renders \cup {RenderOf("final", domMarkers)}
    /\ pdfAtPath' = IF plansNonEmpty THEN "without-footnotes" ELSE "complete"
    /\ asmPc' = IF plansNonEmpty THEN "inject" ELSE "cleanup"
    /\ UNCHANGED <<asmDoc, domMarkers, contentRendersLeft, asmOutcome,
                   earlyVars, linkVars, injVars, syncVars>>

\* injectFootnotesOverlayIntoPdf ran to its writeFileSync
InjectOverlay ==
    /\ asmPc = "inject"
    /\ pdfAtPath' = "complete"
    /\ asmPc' = "cleanup"
    /\ UNCHANGED <<asmDoc, domMarkers, renders, contentRendersLeft, asmOutcome,
                   earlyVars, linkVars, injVars, syncVars>>

\* cleanupTempFiles, cleanup: export returns
CleanupTempFiles ==
    /\ asmPc = "cleanup"
    /\ asmOutcome' = "ok"
    /\ asmPc' = "end"
    /\ UNCHANGED <<asmDoc, domMarkers, renders, contentRendersLeft, pdfAtPath,
                   earlyVars, linkVars, injVars, syncVars>>

\* a render or a measurement throws: export logs the error, throws it again
\* and closes the browser
RenderFails ==
    /\ asmPc \in RenderSteps
    /\ asmOutcome' = "failed"
    /\ asmPc' = "end"
    /\ UNCHANGED <<asmDoc, domMarkers, renders, contentRendersLeft, pdfAtPath,
                   earlyVars, linkVars, injVars, syncVars>>

InitAssembly == EarlyIdle /\ LinkIdle /\ InjIdle /\ AsmInit /\ SyncIdle

NextAssembly ==
    \/ \E expands \in BOOLEAN : InsertMarkers(expands)
    \/ \E tablesToBreak \in BOOLEAN : RenderContentPdf(tablesToBreak)
    \/ RenderTocPdf
    \/ RenderProbePdf
    \/ RemoveTocMarkers
    \/ RemoveFootnoteMarkers
    \/ \E plansNonEmpty \in BOOLEAN : FinalRender(plansNonEmpty)
    \/ InjectOverlay
    \/ CleanupTempFiles
    \/ RenderFails

SpecAssembly == InitAssembly /\ [][NextAssembly]_vars

FinalRenderIssued == \E r \in renders : r.target = "final"

C26_WitnessFootnotes ==
    /\ FinalRenderIssued
    /\ HasFootnotes(asmDoc)
    /\ asmDoc.disableTableBreaks
    /\ pdfAtPath = "complete"
    /\ asmOutcome = "ok"

\* C27: when a render or measurement call fails at any step, the overlay
\* render and merge after the final render included, the export fails and no
\* document, complete or partial, lies at the final output path.
C27_NoDocumentAfterFailure ==
    asmOutcome = "failed" => pdfAtPath = "none"

\* ---------------------------------------------------------------------------
\* export-all: evaluateSyncState, runSingleExport and the handling of a page
\* ---------------------------------------------------------------------------

MaxInstant == 2
MaxRuns == 2

TimeForms == {"iso", "short"}

Timestamps == {NoTime, GarbageTime} \cup {TimeOf(i, f) : i \in 1..MaxInstant, f \in TimeForms}

\* the moment a run of the export writes its PDF: after every instant of Init
NowInstant == MaxInstant + 1

\* the value is handed back in the notation it came in
normalizeTimestamp_Raw(value) ==
    IF value.kind # "time" THEN NoTime ELSE value

\* null for a missing value and for one Date.parse rejects, else
\* new Date(millis).toISOString()
normalizeTimestamp(value) ==
    IF value.kind # "time" THEN NoTime ELSE TimeOf(value.instant, "iso")

\* meta && typeof meta.sourceUpdatedAt === 'string'
HasStoredUpdatedAt(meta) == meta.readable /\ meta.sourceUpdatedAt.kind # "none"

Decision(shouldExport, action, reason, sourceUpdatedAt, writeMeta) ==
    [shouldExport |-> shouldExport, action |-> action, reason |-> reason,
     sourceUpdatedAt |-> sourceUpdatedAt, writeMeta |-> writeMeta]

evaluateSyncState(page, pdf, meta) ==
    LET sourceUpdatedAt == normalizeTimestamp(page.updatedAt)
        metaUpdatedAt == normalizeTimestamp(meta.sourceUpdatedAt)
    IN  IF ~pdf.exists
        THEN Decision(TRUE, "create", "pdf_missing", sourceUpdatedAt, FALSE)
        ELSE IF HasStoredUpdatedAt(meta) /\ sourceUpdatedAt # NoTime
        THEN IF metaUpdatedAt # NoTime /\ metaUpdatedAt = sourceUpdatedAt
             THEN Decision(FALSE, "none", "meta_matches_updatedAt", sourceUpdatedAt, FALSE)
             ELSE Decision(TRUE, "update", "meta_mismatch", sourceUpdatedAt, FALSE)
        ELSE IF sourceUpdatedAt # NoTime
        THEN IF pdf.mtime >= sourceUpdatedAt.instant
             THEN Decision(FALSE, "none", "pdf_mtime_is_fresh", sourceUpdatedAt, TRUE)
             ELSE Decision(TRUE, "update", "pdf_is_older_than_wiki_page", sourceUpdatedAt, FALSE)
        ELSE Decision(FALSE, "none", "wiki_page_updatedAt_missing", NoTime, FALSE)

buildMetaRecord(sourceUpdatedAt) == [readable |-> TRUE, sourceUpdatedAt |-> sourceUpdatedAt]

\* the code of the close event: null for a child a signal ended
NullCode == -1

ChildEndings == {"spawn-error", "exit-0", "exit-1", "signal"}

CloseCode(kind) ==
    CASE kind = "exit-0" -> 0
      [] kind = "exit-1" -> 1
      [] kind = "signal" -> NullCode

\* code || 0
OrZero(code) == IF code = NullCode THEN 0 ELSE code

\* what runSingleExport resolves
ResolvedCode(kind) == IF kind = "spawn-error" THEN 1 ELSE OrZero(CloseCode(kind))

Counted(st, action) ==
    IF action = "create" THEN [st EXCEPT !.created = @ + 1]
    ELSE IF action = "update" THEN [st EXCEPT !.updated = @ + 1]
    ELSE st

SyncInit ==
    /\ syncPage \in [updatedAt : Timestamps]
    /\ dryRun \in BOOLEAN
    /\ pdfFile \in {[exists |-> FALSE, mtime |-> 0]}
                       \cup {[exists |-> TRUE, mtime |-> i] : i \in 1..MaxInstant}
    /\ metaFile \in {[readable |-> FALSE, sourceUpdatedAt |-> NoTime]}
                       \cup {[readable |-> TRUE, sourceUpdatedAt |-> t] : t \in Timestamps}
    /\ syncState = NoSyncState
    /\ childResult = NoChild
    /\ stats = NoStats
    /\ syncRun = 1
    /\ syncPc = "evaluate"

\* the loop body up to the await: the decision, the skip branch with its
\* metadata refresh, the dry-run branch
EvaluatePage ==
    /\ syncPc = "evaluate"
    /\ LET decided == evaluateSyncState(syncPage, pdfFile, metaFile)
       IN  /\ syncState' = decided
           /\ IF ~decided.shouldExport
              THEN /\ stats' = [stats EXCEPT !.skipped = @ + 1]
                   /\ metaFile' = IF ~dryRun /\ decided.writeMeta
                                  THEN buildMetaRecord(decided.sourceUpdatedAt)
                                  ELSE metaFile
                   /\ syncPc' = "next"
              ELSE IF dryRun
              THEN /\ stats' = Counted(stats, decided.action)
                   /\ metaFile' = metaFile
                   /\ syncPc' = "next"
              ELSE /\ UNCHANGED <<stats, metaFile>>
                   /\ syncPc' = "spawn"
    /\ childResult' = NoChild
    /\ UNCHANGED <<syncPage, dryRun, pdfFile, syncRun, earlyVars, linkVars, injVars, asmVars>>

\* the export child runs and ends; it may have written the PDF before
runSingleExport(kind, wrote) ==
    /\ syncPc = "spawn"
    /\ wrote => kind # "spawn-error"
    /\ pdfFile' = IF wrote THEN [exists |-> TRUE, mtime |-> NowInstant] ELSE pdfFile
    /\ childResult' = [kind |-> kind, code |-> ResolvedCode(kind)]
    /\ syncPc' = "handle"
    /\ UNCHANGED <<syncPage, dryRun, metaFile, syncState, stats, syncRun,
                   earlyVars, linkVars, injVars, asmVars>>

\* the loop body after the await
HandleResult ==
    /\ syncPc = "handle"
    /\ IF childResult.code # 0
       THEN /\ stats' = [stats EXCEPT !.failed = @ + 1]
            /\ metaFile' = metaFile
       ELSE IF ~pdfFile.exists
       THEN /\ stats' = [stats EXCEPT !.failed = @ + 1]
            /\ metaFile' = metaFile
       ELSE /\ metaFile' = buildMetaRecord(syncState.sourceUpdatedAt)
            /\ stats' = Counted(stats, syncState.action)
    /\ syncPc' = "next"
    /\ UNCHANGED <<syncPage, dryRun, pdfFile, syncState, childResult, syncRun,
                   earlyVars, linkVars, injVars, asmVars>>

\* export-all is started again; the server lists the page as before
NextRun ==
    /\ syncPc = "next"
    /\ syncRun < MaxRuns
    /\ syncRun' = syncRun + 1
    /\ stats' = NoStats
    /\ syncPc' = "evaluate"
    /\ UNCHANGED <<syncPage, dryRun, pdfFile, metaFile, syncState, childResult,
                   earlyVars, linkVars, injVars, asmVars>>

InitSync == EarlyIdle /\ LinkIdle /\ InjIdle /\ AsmIdle /\ SyncInit

NextSync ==
    \/ EvaluatePage
    \/ \E kind \in ChildEndings, wrote \in BOOLEAN : runSingleExport(kind, wrote)
    \/ HandleResult
    \/ NextRun

SpecSync == InitSync /\ [][NextSync]_vars

Skips(decided) == ~decided.shouldExport
Exports(decided, action) == decided.shouldExport /\ decided.action = action

SameInstant(a, b) == a.kind = "time" /\ b.kind = "time" /\ a.instant = b.instant

\* what a step of EvaluatePage decides, by the files and the page it read
C28_DecisionStep ==
    syncPc = "evaluate" =>
        LET decided == syncState'
            updatedAt == syncPage.updatedAt
        IN  /\ ~pdfFile.exists => Exports(decided, "create")
            /\ (pdfFile.exists /\ updatedAt.kind = "time") =>
                   IF HasStoredUpdatedAt(metaFile)
                   THEN IF SameInstant(metaFile.sourceUpdatedAt, updatedAt)
                        THEN Skips(decided)
                        ELSE Exports(decided, "update")
                   ELSE IF pdfFile.mtime >= updatedAt.instant
                        THEN Skips(decided)
                        ELSE Exports(decided, "update")
            /\ (pdfFile.exists /\ updatedAt.kind # "time") => Skips(decided)

\* C28: a page whose PDF is missing is exported (create). For a page whose
\* PDF exists and whose server updatedAt can be parsed: it is skipped when
\* the stored meta sourceUpdatedAt names the same instant, exported (update)
\* when the meta stores another string, and without a stored string it is
\* skipped if the PDF file is not older than updatedAt and exported (update)
\* otherwise. A page whose PDF exists and whose updatedAt is missing or
\* cannot be parsed is skipped.
C28_RegeneratesOnlyChanged == [][C28_DecisionStep]_vars

\* a PDF, a meta that stores the instant in another notation than the
\* server: skipped
C28_Witness ==
    /\ syncPc = "next"
    /\ syncRun = 1
    /\ pdfFile = [exists |-> TRUE, mtime |-> 1]
    /\ syncPage.updatedAt = TimeOf(2, "short")
    /\ metaFile = [readable |-> TRUE, sourceUpdatedAt |-> TimeOf(2, "iso")]
    /\ syncState = Decision(FALSE, "none", "meta_matches_updatedAt", TimeOf(2, "iso"), FALSE)

C28_WitnessMissingUpdatedAt ==
    /\ syncPc = "next"
    /\ syncRun = 1
    /\ pdfFile.exists
    /\ syncPage.updatedAt = NoTime
    /\ metaFile = [readable |-> TRUE, sourceUpdatedAt |-> TimeOf(1, "iso")]
    /\ syncState.reason = "wiki_page_updatedAt_missing"

\* the decision by the stored value compared as it is
C28_StatedStep ==
    syncPc = "evaluate" =>
        LET decided == syncState'
            updatedAt == syncPage.updatedAt
        IN  /\ ~pdfFile.exists => Exports(decided, "create")
            /\ (pdfFile.exists /\ HasStoredUpdatedAt(metaFile)) =>
                   IF metaFile.sourceUpdatedAt = updatedAt
                   THEN Skips(decided)
                   ELSE Exports(decided, "update")
            /\ (pdfFile.exists /\ ~HasStoredUpdatedAt(metaFile) /\ updatedAt.kind = "time") =>
                   IF pdfFile.mtime >= updatedAt.instant
                   THEN Skips(decided)
                   ELSE Exports(decided, "update")

\* C28 as stated: equality and difference are those of the stored value and
\* the server's updatedAt
C28_AsStated == [][C28_StatedStep]_vars

ChildFailed(result) == result.kind \in {"spawn-error", "exit-1", "signal"}

\* a step of HandleResult, and the decision of the run after a failed child
C29_Step ==
    /\ (/\ syncPc = "handle"
        /\ \/ metaFile' # metaFile
           \/ stats'.created > stats.created
           \/ stats'.updated > stats.updated)
           => (childResult.kind = "exit-0" /\ pdfFile.exists)
    /\ (syncPc = "handle" /\ ChildFailed(childResult))
           => (stats'.failed = stats.failed + 1 /\ metaFile' = metaFile)
    /\ (syncPc = "evaluate" /\ ChildFailed(childResult)) => syncState'.shouldExport

\* C29: in a run that exports, the meta is written and the page counted as
\* created or updated only after a child that exited with code 0 and with the
\* PDF in place; after a child that failed to spawn, exited non-zero or was
\* ended by a signal the page is counted as failed, the meta is left as it
\* was, and the next run selects the page for export again.
C29_MetaOnlyAfterNormalExit == [][C29_Step]_vars

\* ---------------------------------------------------------------------------
\* buildFootnotePagePlan: the rewrites against the page plans
\* ---------------------------------------------------------------------------

\* the places of the items in the returned plan: page plan k, item i
ResultSlots ==
    {slot \in (1..Len(planResult)) \X (1..MaxRefs + 1) : slot[2] <= Len(planResult[slot[1]].items)}

SlotItem(slot) == planResult[slot[1]].items[slot[2]]

NumbersOf(item) == {item.numbers[j] : j \in 1..Len(item.numbers)}

\* C30: for every refUpdate there is exactly one item in the returned plans
\* with the update's destName; it lies on the page the reference resolved to
\* and its numbers contain newNumber. Every number in an item's numbers list
\* belongs to exactly one refUpdate with the item's destName.
C30_UpdatesMatchPlans ==
    planPc = "done" =>
        /\ \A u \in 1..Len(refUpdates) :
               LET update == refUpdates[u]
                   holders == {slot \in ResultSlots : SlotItem(slot).destName = update.destName}
               IN  /\ Cardinality(holders) = 1
                   /\ \A slot \in holders :
                          /\ planResult[slot[1]].page = ResolvePage(markerPages, update.refIndex)
                          /\ update.newNumber \in NumbersOf(SlotItem(slot))
        /\ \A slot \in ResultSlots :
               /\ Cardinality(NumbersOf(SlotItem(slot))) = Len(SlotItem(slot).numbers)
               /\ \A n \in NumbersOf(SlotItem(slot)) :
                      Cardinality({u \in 1..Len(refUpdates) :
                                      /\ refUpdates[u].destName = SlotItem(slot).destName
                                      /\ refUpdates[u].newNumber = n}) = 1

\* three references on two pages, two of them merged into one item
C30_Witness ==
    /\ planPc = "done"
    /\ Len(refUpdates) = 3
    /\ Len(planResult) = 2
    /\ \E slot \in ResultSlots : SlotItem(slot).numbers = <<1, 2>>
    /\ refUpdates[1].destName = refUpdates[2].destName
    /\ refUpdates[3].destName # refUpdates[1].destName
    /\ refUpdates[3].newNumber = 1

====
